---- MODULE Spec2Model ----
(***************************************************************************)
(* A state-machine model of parts of the niri compositor:                  *)
(*   - utils/transaction.rs : Transaction, TransactionBlocker, Inner       *)
(*   - window/mapped.rs     : the transaction flow of a Mapped window      *)
(*   - frame_clock.rs       : FrameClock                                   *)
(*   - animation/clock.rs   : LazyClock / AdjustableClock / Clock          *)
(* Each part has its own specification (SpecTransaction, SpecTx,           *)
(* SpecFrameClock, SpecClock); a specification leaves the variables of the *)
(* other parts unchanged.                                                  *)
(***************************************************************************)
EXTENDS Integers, Sequences, FiniteSets, TLC

VARIABLES
    \* ---- utils/transaction.rs and its event loop ----
    txs,            \* per transaction: Arc<Inner> and Rc<RefCell<Deadline>>
    evloop,         \* per transaction: the timer source and the remove-ping
    chan,           \* per channel: clients sent and not yet received
    now,            \* Instant::now(), in ms
    layout_tx,      \* the creator (layout) still holds its own handle
    \* ---- window/mapped.rs (transaction flow) and the xdg toplevel ----
    transaction_for_next_configure,
    pending_transactions,
    needs_configure,
    server_pending,
    pending_configures,     \* serials of the configures sent and not acked
    configure_serial,       \* role.configure_serial: the configure acked last
    current_server_state,   \* role.current_server_state().size
    serial_counter,
    blockers_on,    \* blockers attached to the surface's held commit
    \* ---- history of the transaction flow (observers only) ----
    sent,           \* per transaction: every <<channel, client>> sent
    registered,     \* per transaction: every accepted add_notification
    deadline_fired, \* per transaction: the timer callback completed it
    handed,         \* per transaction: windows given a clone by request_size
    took,           \* per transaction: windows that took it at a commit
    \* ---- frame_clock.rs ----
    last_presentation_time,
    refresh_interval_ns,
    vrr,
    monotonic_time,     \* what get_monotonic_time() returns to the frame clock
    fc_ret,             \* what next_presentation_time returned, if it was
                        \* called since the clock or the time last changed
    fc_op,              \* history: the last set_vrr or presented, its
                        \* argument and the frame clock it was called on
    \* ---- animation/clock.rs ----
    time,               \* LazyClock.time
    current_time,
    last_seen_time,
    rate,               \* in units of 1 / RateUnit
    clock_monotonic,    \* what get_monotonic_time() returns to the LazyClock
    complete_instantly,
    rate_changed,       \* history: set_rate was called
    frame_now,          \* history: what now() returned since the last clear()
                        \* or set_unadjusted()
    \* ---- animation/mod.rs ----
    animation,          \* an Animation on the clock, once one is constructed
    anim_config,        \* history: the config the animation was last given
    anim_ret,           \* history: the Animation operation that has just
                        \* returned, and what it returned
    \* ---- window/mapped.rs: the configure flow of one window ----
    mapped,             \* the fields of Mapped
    role,               \* XdgToplevelSurfaceRoleAttributes of its toplevel
    geometry,           \* window.geometry().size
    next_serial,        \* SERIAL_COUNTER
    mapped_op,          \* history: the operation on the window that has just
                        \* returned
    size_request,       \* history: the size of the last request_size and
                        \* the serial of its configure, until the next
                        \* request to the window, where a specification
                        \* follows it
    \* ---- backend/winit.rs, backend/headless.rs: one output ----
    backend,            \* which backend renders the output
    redraw_state,       \* output_state.redraw_state
    frame_callback_sequence,
    unfinished_animations_remain,
    redraw_requested,   \* winit: window().request_redraw() was called and
                        \* its WinitEvent::Redraw is still to come
    render_op,          \* history: the step just taken on the output and
                        \* what render returned
    \* ---- animation/spring.rs: one call on one spring ----
    spring_call,        \* the spring, the call under way, its loop counter
                        \* `i` and what the call gave
    \* ---- utils/watcher.rs: one watcher thread and its path ----
    fs_props,           \* what canonicalize() and metadata().modified() give
                        \* for the path now: None when they fail
    watcher,            \* the thread: where it is, last_props, and the
                        \* new_props it is about to report
    should_stop,
    changed_channel,    \* the channel of notifications and its receiver
    watch_log,          \* history: the changes of fs_props since the thread
                        \* last read them, and the step just taken
    \* ---- ui/screen_transition.rs ----
    screen_transition,  \* the ScreenTransition, once one is created
    st_ret,             \* history: the operation on the transition that has
                        \* just returned, the unadjusted time it read and
                        \* what it returned
    \* ---- window/mapped.rs: focus and urgency ----
    focus,              \* per window: is_focused, is_urgent and
                        \* need_to_recompute_rules of its Mapped
    focus_op,           \* history: the call on a Mapped that has just
                        \* returned
    \* ---- dbus/freedesktop_screensaver.rs ----
    is_inhibited,       \* Arc<AtomicBool>, shared with the compositor
    is_broken,          \* Arc<AtomicBool>
    inhibitors,         \* Arc<Mutex<HashMap<u32, OwnedUniqueName>>>
    counter,            \* the cookie counter of the ScreenSaver
    saver_call,         \* the method call zbus is running on the ScreenSaver:
                        \* where it is, and the cookie it inserted
    monitor_task,       \* where the task spawned by start() is
    saver_ret,          \* history: the method call that has just returned
                        \* and its result
    \* ---- ui/config_error_notification.rs ----
    notification,       \* the ConfigErrorNotification: state and created_path
    notif_op,           \* history: the call on the notification that has
                        \* just returned and what it returned
    notif_advanced      \* history: the frame advance_animations last ran in

txVars == <<txs, evloop, chan, now, layout_tx, transaction_for_next_configure,
            pending_transactions, needs_configure, server_pending,
            pending_configures, configure_serial, current_server_state,
            serial_counter, blockers_on,
            sent, registered, deadline_fired, handed, took>>

fcVars == <<last_presentation_time, refresh_interval_ns, vrr, monotonic_time,
           fc_ret, fc_op>>

clockVars == <<time, current_time, last_seen_time, rate, clock_monotonic,
              complete_instantly, rate_changed, frame_now>>

animVars == <<animation, anim_config, anim_ret>>

mappedVars == <<mapped, role, geometry, next_serial, mapped_op, size_request>>

renderVars == <<backend, redraw_state, frame_callback_sequence,
               unfinished_animations_remain, redraw_requested, render_op>>

springVars == <<spring_call>>

watcherVars == <<fs_props, watcher, should_stop, changed_channel,
                watch_log>>

transitionVars == <<screen_transition, st_ret>>

focusVars == <<focus, focus_op>>

saverVars == <<is_inhibited, is_broken, inhibitors, counter, saver_call,
              monitor_task, saver_ret>>

notifVars == <<notification, notif_op, notif_advanced>>

vars == <<txVars, fcVars, clockVars, animVars, mappedVars, renderVars,
          springVars, watcherVars, transitionVars, focusVars, saverVars, notifVars>>

\* What the actions of one part leave unchanged of the other parts
beyondTx == <<fcVars, clockVars, animVars, mappedVars, renderVars, springVars,
    watcherVars, transitionVars, focusVars, saverVars, notifVars>>
beyondFc == <<txVars, clockVars, animVars, mappedVars, renderVars, springVars,
    watcherVars, transitionVars, focusVars, saverVars, notifVars>>
beyondClock == <<txVars, fcVars, animation, anim_config, mappedVars, renderVars, springVars,
    watcherVars, transitionVars, focusVars, saverVars, notifVars>>
beyondAnim == <<txVars, fcVars, mappedVars, renderVars, springVars,
    watcherVars, transitionVars, focusVars, saverVars, notifVars>>
beyondMapped == <<txVars, fcVars, clockVars, animVars, renderVars, springVars,
    watcherVars, transitionVars, focusVars, saverVars, notifVars>>
beyondRender == <<txVars, fcVars, clockVars, animVars, mappedVars, springVars,
    watcherVars, transitionVars, focusVars, saverVars, notifVars>>
beyondSpring == <<txVars, fcVars, clockVars, animVars, mappedVars, renderVars,
    watcherVars, transitionVars, focusVars, saverVars, notifVars>>
beyondWatcher == <<txVars, fcVars, clockVars, animVars, mappedVars, renderVars,
    springVars, transitionVars, focusVars, saverVars, notifVars>>
beyondTransition == <<txVars, fcVars, clockVars, animVars, mappedVars, renderVars,
    springVars, watcherVars, focusVars, saverVars, notifVars>>
beyondTransitionClock == <<txVars, fcVars, animVars, mappedVars, renderVars,
    springVars, watcherVars, focusVars, saverVars, notifVars>>
beyondFocus == <<txVars, fcVars, clockVars, animVars, mappedVars, renderVars,
    springVars, watcherVars, transitionVars, saverVars, notifVars>>
beyondSaver == <<txVars, fcVars, clockVars, animVars, mappedVars, renderVars,
    springVars, watcherVars, transitionVars, focusVars, notifVars>>
beyondNotif == <<txVars, fcVars, clockVars, animVars, mappedVars, renderVars,
    springVars, watcherVars, transitionVars, focusVars, saverVars>>
beyondNotifClock == <<txVars, fcVars, animation, anim_config, mappedVars, renderVars,
    springVars, watcherVars, transitionVars, focusVars, saverVars>>

-----------------------------------------------------------------------------
\* Bounds of the model.
MaxTx == 1
MaxClones == 3
MaxNotifications == 2
MaxWindows == 2
MaxChannels == 2
MaxSize == 2
MaxConfigures == 2
TimeStep == 400
MaxTime == 400
MaxInterval == 3
MaxMonotonic == 10
MaxRaw == 4
RateUnit == 2
MaxRate == 4
DurationMax == 10

\* Program constants.
TIME_LIMIT == 300

TxIds == 1..MaxTx
Windows == 1..MaxWindows
Channels == 1..MaxChannels
Sizes == 1..MaxSize

\* Option<T>
None == <<>>
Some(x) == <<x>>
IsSome(o) == o # <<>>
Unwrap(o) == o[1]

-----------------------------------------------------------------------------
\* smithay Serial: a u32 compared wrap-safely.  The model's counter is
\* narrower, so that it comes round: SerialWrap stands for 2^32
SerialWrap == 32

\* u32::MAX
SerialMax == SerialWrap - 1

\* u32::MAX / 2
SerialHalf == SerialMax \div 2

\* SerialCounter::next_serial: the serial after `serial`; 0 is passed over
NextSerial(serial) == IF serial = SerialMax THEN 1 ELSE serial + 1

Abs(x) == IF x < 0 THEN -x ELSE x

\* The comparison of the numbers of the serials
Serial_numerically_no_older(a, b) == b <= a

\* a.is_no_older_than(b)  ==  b <= a  under Serial's PartialOrd
is_no_older_than(a, b) ==
    IF Abs(a - b) < SerialHalf THEN b <= a ELSE a <= b

-----------------------------------------------------------------------------
\* The part of the state that completing and dropping a transaction touch,
\* threaded through the operators below.
St == [txs |-> txs, evloop |-> evloop, chan |-> chan, sent |-> sent]

NoNotifications == [some |-> FALSE, sender |-> 1, clients |-> <<>>]

\* Inner::new / Transaction::new
NewInner(deadline) ==
    [born |-> TRUE, strong |-> 1, completed |-> FALSE,
     notifications |-> NoNotifications,
     deadline |-> [registered |-> FALSE, at |-> deadline]]

UnbornInner ==
    [born |-> FALSE, strong |-> 0, completed |-> FALSE,
     notifications |-> NoNotifications,
     deadline |-> [registered |-> FALSE, at |-> 0]]

\* Inner::is_completed, through a live handle
Inner_is_completed(S, t) == S.txs[t].completed

\* A completion that delivers the notifications and leaves the flag unset.
Inner_complete_unflagged(S, t) ==
    LET n == S.txs[t].notifications IN
    [S EXCEPT
        !.txs[t].notifications = NoNotifications,
        !.chan = IF n.some THEN [@ EXCEPT ![n.sender] = @ \o n.clients] ELSE @,
        !.sent = IF n.some
                 THEN [@ EXCEPT ![t] = @ \o [i \in 1..Len(n.clients) |->
                                               <<n.sender, n.clients[i]>>]]
                 ELSE @]

\* Inner::complete
Inner_complete(S, t) ==
    LET n == S.txs[t].notifications IN
    [S EXCEPT
        !.txs[t].completed = TRUE,
        !.txs[t].notifications = NoNotifications,
        !.chan = IF n.some THEN [@ EXCEPT ![n.sender] = @ \o n.clients] ELSE @,
        !.sent = IF n.some
                 THEN [@ EXCEPT ![t] = @ \o [i \in 1..Len(n.clients) |->
                                               <<n.sender, n.clients[i]>>]]
                 ELSE @]

\* An is_last that answers one clone early.
Transaction_is_last_early(S, t) == S.txs[t].strong = 2

\* Transaction::is_last
Transaction_is_last(S, t) == S.txs[t].strong = 1

\* Transaction::clone (derived Clone: Arc and Rc counts go up)
Transaction_clone(S, t) == [S EXCEPT !.txs[t].strong = @ + 1]

\* A drop that completes the transaction whichever clone goes.
Transaction_drop_eager(S, t) ==
    LET S1 == Inner_complete(S, t)
        S2 == IF S1.txs[t].deadline.registered
              THEN [S1 EXCEPT !.evloop[t].ping = TRUE]
              ELSE S1
    IN [S2 EXCEPT !.txs[t].strong = @ - 1]

\* Drop for Transaction, then the drop of its fields
Transaction_drop(S, t) ==
    LET last == Transaction_is_last(S, t)
        S1 == IF last THEN Inner_complete(S, t) ELSE S
        S2 == IF last /\ S1.txs[t].deadline.registered
              THEN [S1 EXCEPT !.evloop[t].ping = TRUE]
              ELSE S1
    IN [S2 EXCEPT !.txs[t].strong = @ - 1]

DropOption(S, o) == IF IsSome(o) THEN Transaction_drop(S, Unwrap(o)) ELSE S

\* An add_notification that keeps the sender of the latest call.
Transaction_add_notification_last_sender(S, t, sender, client) ==
    IF Inner_is_completed(S, t)
    THEN S
    ELSE LET n == S.txs[t].notifications
         IN [S EXCEPT !.txs[t].notifications =
                [some |-> TRUE, sender |-> sender,
                 clients |-> Append(n.clients, client)]]

\* Transaction::add_notification
Transaction_add_notification(S, t, sender, client) ==
    IF Inner_is_completed(S, t)
    THEN S
    ELSE LET n == S.txs[t].notifications
             entry == IF n.some THEN n
                      ELSE [some |-> TRUE, sender |-> sender, clients |-> <<>>]
         IN [S EXCEPT !.txs[t].notifications =
                         [entry EXCEPT !.clients = Append(@, client)]]

\* Blocker::state for a blocker made by Transaction::blocker
TransactionBlocker_state(S, t) ==
    IF S.txs[t].strong = 0 \/ Inner_is_completed(S, t)
    THEN "Released" ELSE "Pending"

-----------------------------------------------------------------------------
\* Mapped::take_pending_transaction: the loop, dropping every transaction it
\* removes except the last one, which it returns.
RECURSIVE take_loop(_, _, _, _)
take_loop(S, q, rv, commit_serial) ==
    IF q # <<>> /\ is_no_older_than(commit_serial, Head(q).serial)
    THEN take_loop(DropOption(S, rv), Tail(q), Some(Head(q).tx), commit_serial)
    ELSE [S |-> S, q |-> q, rv |-> rv]

take_pending_transaction(S, q, commit_serial) ==
    take_loop(S, q, None, commit_serial)

\* role.current_server_state().size: the size of the last pending configure
\* or, when none is pending, of the acked one; that is, of the configure sent
\* last, which is all the model keeps of the configures' states.
current_server_size(w) == current_server_state[w]

\* has_pending_changes of send_pending_configure; of the toplevel state the
\* model keeps the size.
has_pending_changes(w) ==
    \/ needs_configure[w]
    \/ /\ IsSome(server_pending[w])
       /\ Unwrap(server_pending[w]) # current_server_size(w)

-----------------------------------------------------------------------------
TxInit ==
    /\ txs = [t \in TxIds |-> UnbornInner]
    /\ evloop = [t \in TxIds |-> [timer |-> "none", due |-> 0, ping |-> FALSE,
                                  installed |-> 0]]
    /\ chan = [c \in Channels |-> <<>>]
    /\ now = 0
    /\ layout_tx = [t \in TxIds |-> FALSE]
    /\ transaction_for_next_configure = [w \in Windows |-> None]
    /\ pending_transactions = [w \in Windows |-> <<>>]
    /\ needs_configure = [w \in Windows |-> FALSE]
    /\ server_pending = [w \in Windows |-> None]
    /\ pending_configures = [w \in Windows |-> <<>>]
    /\ configure_serial = [w \in Windows |-> w]
    /\ current_server_state = [w \in Windows |-> 1]
    /\ serial_counter = MaxWindows + 1
    /\ blockers_on = [w \in Windows |-> {}]
    /\ sent = [t \in TxIds |-> <<>>]
    /\ registered = [t \in TxIds |-> <<>>]
    /\ deadline_fired = [t \in TxIds |-> FALSE]
    /\ handed = [t \in TxIds |-> {}]
    /\ took = [t \in TxIds |-> {}]


\* Writes a threaded state back to the variables.
Store(S) ==
    /\ txs' = S.txs
    /\ evloop' = S.evloop
    /\ chan' = S.chan
    /\ sent' = S.sent

windowVars == <<transaction_for_next_configure, pending_transactions,
                needs_configure, server_pending, pending_configures,
                configure_serial, current_server_state, serial_counter,
                blockers_on>>

\* Transaction::new, by the layout
NewTransaction(t) ==
    /\ ~txs[t].born
    /\ \A u \in TxIds : u < t => txs[u].born
    /\ txs' = [txs EXCEPT ![t] = NewInner(now + TIME_LIMIT)]
    /\ layout_tx' = [layout_tx EXCEPT ![t] = TRUE]
    /\ UNCHANGED <<evloop, chan, now, windowVars, sent, registered,
                   deadline_fired, handed, took>>
    /\ UNCHANGED beyondTx

\* The layout lets go of its own handle.
LayoutDrop(t) ==
    /\ layout_tx[t]
    /\ Store(Transaction_drop(St, t))
    /\ layout_tx' = [layout_tx EXCEPT ![t] = FALSE]
    /\ UNCHANGED <<now, windowVars, registered, deadline_fired, handed, took>>
    /\ UNCHANGED beyondTx

\* A register_deadline_timer that inserts a timer at every call
Transaction_register_deadline_timer_every_call(S, t) ==
    [S EXCEPT !.evloop[t].timer = "armed",
              !.evloop[t].due = S.txs[t].deadline.at,
              !.evloop[t].installed = @ + 1,
              !.txs[t].deadline.registered = TRUE]

\* Transaction::register_deadline_timer: `installed` counts the timers that
\* were inserted into the event loop for the transaction
Transaction_register_deadline_timer(S, t) ==
    IF ~S.txs[t].deadline.registered
    THEN [S EXCEPT !.evloop[t].timer = "armed",
                   !.evloop[t].due = S.txs[t].deadline.at,
                   !.evloop[t].installed = @ + 1,
                   !.txs[t].deadline.registered = TRUE]
    ELSE S

\* Transaction::register_deadline_timer, by any holder of a clone
RegisterDeadlineTimer(t) ==
    /\ txs[t].strong > 0
    /\ Store(Transaction_register_deadline_timer(St, t))
    /\ UNCHANGED <<now, layout_tx, windowVars, registered,
                   deadline_fired, handed, took>>
    /\ UNCHANGED beyondTx

\* The timer callback of the cfg(test) build: it does nothing.
TimerCallback_cfg_test(S, t) == S

\* The timer callback of register_deadline_timer (the build without cfg(test)):
\* the event loop runs it once the deadline is reached, then drops the source.
TimerCallback(S, t) ==
    IF S.txs[t].strong > 0 THEN Inner_complete(S, t) ELSE S

TimerFire(t) ==
    /\ evloop[t].timer = "armed"
    /\ now >= evloop[t].due
    /\ LET S == TimerCallback(St, t) IN
       /\ txs' = S.txs
       /\ chan' = S.chan
       /\ sent' = S.sent
       /\ deadline_fired' = [deadline_fired EXCEPT ![t] = @ \/ S.txs[t] # txs[t]]
    /\ evloop' = [evloop EXCEPT ![t].timer = "dropped"]
    /\ UNCHANGED <<now, layout_tx, windowVars, registered, handed, took>>
    /\ UNCHANGED beyondTx

\* The ping source's callback: loop_handle.remove(token)
PingDispatch(t) ==
    /\ evloop[t].ping
    /\ evloop' = [evloop EXCEPT ![t].ping = FALSE,
                                ![t].timer = IF @ = "armed" THEN "removed" ELSE @]
    /\ UNCHANGED <<txs, chan, now, layout_tx, windowVars, sent, registered,
                   deadline_fired, handed, took>>
    /\ UNCHANGED beyondTx

\* Time passes; the event loop runs a due timer before time moves on.  Only
\* deadlines read the time, so it is let pass only while a transaction lives.
Tick ==
    /\ now + TimeStep <= MaxTime
    /\ \A t \in TxIds : ~(evloop[t].timer = "armed" /\ evloop[t].due <= now)
    /\ \E t \in TxIds : txs[t].strong > 0
    /\ now' = now + TimeStep
    /\ UNCHANGED <<txs, evloop, chan, layout_tx, windowVars, sent, registered,
                   deadline_fired, handed, took>>
    /\ UNCHANGED beyondTx

\* Mapped::request_size(size, false, _, transaction), the layout passing a
\* clone of a transaction it holds
RequestSize(w, size, transaction) ==
    /\ IsSome(transaction) => layout_tx[Unwrap(transaction)]
    /\ server_pending' = [server_pending EXCEPT ![w] = Some(size)]
    /\ IF IsSome(transaction)
       THEN LET t == Unwrap(transaction)
                S1 == Transaction_clone(St, t)
                S2 == DropOption(S1, transaction_for_next_configure[w])
            IN /\ Store(S2)
               /\ transaction_for_next_configure' =
                      [transaction_for_next_configure EXCEPT ![w] = Some(t)]
               /\ handed' = [handed EXCEPT ![t] = @ \cup {w}]
       ELSE UNCHANGED <<txs, evloop, chan, sent,
                        transaction_for_next_configure, handed>>
    /\ UNCHANGED <<now, layout_tx, pending_transactions, needs_configure,
                   pending_configures, configure_serial, current_server_state,
                   serial_counter, blockers_on, registered, deadline_fired, took>>
    /\ UNCHANGED beyondTx

\* Mapped::request_size_once(size, _): the transaction slot is cleared; the
\* pending size is set unless the last sent size already is `size`.
RequestSizeOnce(w, size) ==
    /\ Store(DropOption(St, transaction_for_next_configure[w]))
    /\ transaction_for_next_configure' =
           [transaction_for_next_configure EXCEPT ![w] = None]
    /\ server_pending' =
           IF current_server_size(w) = size
           THEN server_pending
           ELSE [server_pending EXCEPT ![w] = Some(size)]
    /\ UNCHANGED <<now, layout_tx, pending_transactions, needs_configure,
                   pending_configures, configure_serial, current_server_state,
                   serial_counter, blockers_on, registered, deadline_fired, handed, took>>
    /\ UNCHANGED beyondTx

\* Mapped::set_needs_configure
SetNeedsConfigure(w) ==
    /\ ~needs_configure[w]
    /\ needs_configure' = [needs_configure EXCEPT ![w] = TRUE]
    /\ UNCHANGED <<txs, evloop, chan, now, layout_tx, sent, registered,
                   deadline_fired, handed, took,
                   transaction_for_next_configure, pending_transactions,
                   server_pending, pending_configures, configure_serial,
                   current_server_state, serial_counter, blockers_on>>
    /\ UNCHANGED beyondTx

\* Mapped::send_pending_configure, the branch that sends a configure
SendConfigure(w) ==
    LET serial == serial_counter
        size == IF IsSome(server_pending[w]) THEN Unwrap(server_pending[w])
                ELSE current_server_size(w)
        tx == transaction_for_next_configure[w]
    IN
    /\ serial_counter < MaxWindows + 1 + MaxConfigures
    /\ serial_counter' = serial_counter + 1
    /\ pending_configures' = [pending_configures EXCEPT ![w] = Append(@, serial)]
    /\ current_server_state' = [current_server_state EXCEPT ![w] = size]
    /\ server_pending' = [server_pending EXCEPT ![w] = None]
    /\ needs_configure' = [needs_configure EXCEPT ![w] = FALSE]
    /\ pending_transactions' =
           IF IsSome(tx)
           THEN [pending_transactions EXCEPT ![w] =
                    Append(@, [serial |-> serial, tx |-> Unwrap(tx)])]
           ELSE pending_transactions
    /\ transaction_for_next_configure' =
           [transaction_for_next_configure EXCEPT ![w] = None]
    /\ UNCHANGED <<txs, evloop, chan, sent>>

\* Mapped::send_pending_configure, the branch that sends nothing: the slot is
\* cleared all the same, which drops the clone in it.
SendNothing(w) ==
    /\ Store(DropOption(St, transaction_for_next_configure[w]))
    /\ transaction_for_next_configure' =
           [transaction_for_next_configure EXCEPT ![w] = None]
    /\ UNCHANGED <<serial_counter, pending_configures, current_server_state,
                   needs_configure,
                   server_pending, pending_transactions>>

\* Mapped::send_pending_configure
SendPendingConfigure(w) ==
    /\ IF has_pending_changes(w) THEN SendConfigure(w) ELSE SendNothing(w)
    /\ UNCHANGED <<now, layout_tx, configure_serial, blockers_on, registered,
                   deadline_fired, handed, took>>
    /\ UNCHANGED beyondTx

\* The surface's pre-commit hook and the commit that follows it.  The client
\* acks configure `serial` (or commits again on the one it acked last); the
\* hook takes the window's transactions up to that serial, registers the
\* client for the completion of the newest, blocks the commit on it and lets
\* the handle go.  A commit none of whose blockers is Pending is applied at
\* once; otherwise it is held.
PreCommitHook(w, serial, sender) ==
    LET r == take_pending_transaction(St, pending_transactions[w], serial)
        t == Unwrap(r.rv)
        S1 == Transaction_add_notification(r.S, t, sender, w)
        accepted == S1 # r.S
        S2 == Transaction_drop(S1, t)
        after == IF IsSome(r.rv) THEN S2 ELSE r.S
        blockers == IF IsSome(r.rv) THEN blockers_on[w] \cup {t}
                    ELSE blockers_on[w]
        removed == {pending_transactions[w][i].tx :
                       i \in 1..(Len(pending_transactions[w]) - Len(r.q))}
    IN
    /\ Store(after)
    /\ pending_transactions' = [pending_transactions EXCEPT ![w] = r.q]
    /\ registered' = IF IsSome(r.rv) /\ accepted
                     THEN [registered EXCEPT ![t] = Append(@, <<sender, w>>)]
                     ELSE registered
    /\ took' = [u \in TxIds |-> IF u \in removed THEN took[u] \cup {w}
                                ELSE took[u]]
    /\ blockers_on' = [blockers_on EXCEPT ![w] =
           IF \A u \in blockers : TransactionBlocker_state(after, u) = "Released"
           THEN {} ELSE blockers]

\* xdg_toplevel.ack_configure(serial) followed by wl_surface.commit
ClientCommit(w, serial, sender) ==
    /\ \/ serial = configure_serial[w]
       \/ \E i \in 1..Len(pending_configures[w]) :
              pending_configures[w][i] = serial
    /\ configure_serial' = [configure_serial EXCEPT ![w] = serial]
    /\ pending_configures' = [pending_configures EXCEPT ![w] =
           SelectSeq(@, LAMBDA c : c > serial)]
    /\ PreCommitHook(w, serial, sender)
    /\ UNCHANGED <<now, layout_tx, transaction_for_next_configure,
                   needs_configure, server_pending, current_server_state,
                   serial_counter, deadline_fired, handed>>
    /\ UNCHANGED beyondTx

\* The runtime receives a client from a channel and applies that client's
\* held commit if none of its blockers is Pending any more.
BlockerCleared(ch) ==
    /\ chan[ch] # <<>>
    /\ chan' = [chan EXCEPT ![ch] = Tail(@)]
    /\ LET w == Head(chan[ch]) IN
       blockers_on' = [blockers_on EXCEPT ![w] =
           IF \A u \in @ : TransactionBlocker_state(St, u) = "Released"
           THEN {} ELSE @]
    /\ UNCHANGED <<txs, evloop, now, layout_tx, sent, registered,
                   deadline_fired, handed, took,
                   transaction_for_next_configure, pending_transactions,
                   needs_configure, server_pending, pending_configures,
                   configure_serial, current_server_state, serial_counter>>
    /\ UNCHANGED beyondTx

-----------------------------------------------------------------------------
\* The Transaction API driven by holders the model does not tell apart: the
\* Arc count is the number of live clones.

\* Transaction::new
TransactionNew(t) ==
    /\ ~txs[t].born
    /\ \A u \in TxIds : u < t => txs[u].born
    /\ txs' = [txs EXCEPT ![t] = NewInner(now + TIME_LIMIT)]
    /\ UNCHANGED <<evloop, chan, now, layout_tx, windowVars, sent, registered,
                   deadline_fired, handed, took>>
    /\ UNCHANGED beyondTx

\* Transaction::clone
TransactionClone(t) ==
    /\ txs[t].strong > 0
    /\ txs[t].strong < MaxClones
    /\ Store(Transaction_clone(St, t))
    /\ UNCHANGED <<now, layout_tx, windowVars, registered, deadline_fired,
                   handed, took>>
    /\ UNCHANGED beyondTx

\* drop(transaction)
TransactionDrop(t) ==
    /\ txs[t].strong > 0
    /\ Store(Transaction_drop(St, t))
    /\ UNCHANGED <<now, layout_tx, windowVars, registered, deadline_fired,
                   handed, took>>
    /\ UNCHANGED beyondTx

\* Transaction::add_notification(sender, client)
AddNotification(t, sender, client) ==
    /\ txs[t].strong > 0
    /\ Len(registered[t]) < MaxNotifications
    /\ LET S == Transaction_add_notification(St, t, sender, client) IN
       /\ Store(S)
       /\ registered' = IF S # St
                        THEN [registered EXCEPT ![t] = Append(@, <<sender, client>>)]
                        ELSE registered
    /\ UNCHANGED <<now, layout_tx, windowVars, deadline_fired, handed, took>>
    /\ UNCHANGED beyondTx

\* Transaction::blocker, the blocker added to a held commit of `client`
AddBlocker(t, client) ==
    /\ txs[t].strong > 0
    /\ t \notin blockers_on[client]
    /\ blockers_on' = [blockers_on EXCEPT ![client] = @ \cup {t}]
    /\ UNCHANGED <<txs, evloop, chan, now, layout_tx, sent, registered,
                   deadline_fired, handed, took,
                   transaction_for_next_configure, pending_transactions,
                   needs_configure, server_pending, pending_configures,
                   configure_serial, current_server_state, serial_counter>>
    /\ UNCHANGED beyondTx

TransactionNext ==
    \/ \E t \in TxIds : TransactionNew(t)
    \/ \E t \in TxIds : TransactionClone(t)
    \/ \E t \in TxIds : TransactionDrop(t)
    \/ \E t \in TxIds, sender \in Channels, client \in Windows :
           AddNotification(t, sender, client)
    \/ \E t \in TxIds, client \in Windows : AddBlocker(t, client)
    \/ \E t \in TxIds : RegisterDeadlineTimer(t)
    \/ \E t \in TxIds : TimerFire(t)
    \/ \E t \in TxIds : PingDispatch(t)
    \/ Tick
    \/ \E ch \in Channels : BlockerCleared(ch)

-----------------------------------------------------------------------------
\* The transaction flow of the windows.  The compositor has one channel for
\* cleared blockers, the first one.
TxNext ==
    \/ \E t \in TxIds : NewTransaction(t)
    \/ \E t \in TxIds : LayoutDrop(t)
    \/ \E t \in TxIds : RegisterDeadlineTimer(t)
    \/ \E t \in TxIds : TimerFire(t)
    \/ \E t \in TxIds : PingDispatch(t)
    \/ Tick
    \/ \E w \in Windows, size \in Sizes, t \in TxIds :
           RequestSize(w, size, Some(t))
    \/ \E w \in Windows, size \in Sizes : RequestSize(w, size, None)
    \/ \E w \in Windows, size \in Sizes : RequestSizeOnce(w, size)
    \/ \E w \in Windows : SetNeedsConfigure(w)
    \/ \E w \in Windows : SendPendingConfigure(w)
    \/ \E w \in Windows :
           \E serial \in {configure_serial[w]} \cup
                         {pending_configures[w][i] :
                              i \in 1..Len(pending_configures[w])} :
               ClientCommit(w, serial, 1)
    \/ \E ch \in Channels : BlockerCleared(ch)

-----------------------------------------------------------------------------
\* frame_clock.rs.  Times and the refresh interval are whole nanoseconds.

\* A next_presentation_time that rounds to the interval without the `+ 1`.
FrameClock_next_presentation_time_no_plus_one(self, t) ==
    IF ~IsSome(self.refresh_interval_ns) \/ ~IsSome(self.last_presentation_time)
    THEN [ret |-> t, error |-> FALSE]
    ELSE LET interval == Unwrap(self.refresh_interval_ns)
             last == Unwrap(self.last_presentation_time)
             now1 == IF t <= last THEN t + interval ELSE t
             early == t <= last /\ now1 < last
             now2 == IF early THEN last + interval ELSE now1
             since_last_ns == now2 - last
             to_next_ns == (since_last_ns \div interval) * interval
         IN [ret |-> IF self.vrr /\ to_next_ns > interval
                     THEN now2 ELSE last + to_next_ns,
             error |-> early]

\* A next_presentation_time that shifts `now` only when it is before the last
\* presentation time, not when it equals it.
FrameClock_next_presentation_time_strict_shift(self, t) ==
    IF ~IsSome(self.refresh_interval_ns) \/ ~IsSome(self.last_presentation_time)
    THEN [ret |-> t, error |-> FALSE]
    ELSE LET interval == Unwrap(self.refresh_interval_ns)
             last == Unwrap(self.last_presentation_time)
             now1 == IF t < last THEN t + interval ELSE t
             early == t < last /\ now1 < last
             now2 == IF early THEN last + interval ELSE now1
             since_last_ns == now2 - last
             to_next_ns == (since_last_ns \div interval + 1) * interval
         IN [ret |-> IF self.vrr /\ to_next_ns > interval
                     THEN now2 ELSE last + to_next_ns,
             error |-> early]

\* A next_presentation_time that returns `now` under VRR whatever the target.
FrameClock_next_presentation_time_vrr_always_now(self, t) ==
    IF ~IsSome(self.refresh_interval_ns) \/ ~IsSome(self.last_presentation_time)
    THEN [ret |-> t, error |-> FALSE]
    ELSE LET interval == Unwrap(self.refresh_interval_ns)
             last == Unwrap(self.last_presentation_time)
             now1 == IF t <= last THEN t + interval ELSE t
             early == t <= last /\ now1 < last
             now2 == IF early THEN last + interval ELSE now1
             since_last_ns == now2 - last
             to_next_ns == (since_last_ns \div interval + 1) * interval
         IN [ret |-> IF self.vrr THEN now2 ELSE last + to_next_ns,
             error |-> early]

\* A next_presentation_time that re-aligns an early `now` to the last
\* presentation time itself.
FrameClock_next_presentation_time_realign_to_last(self, t) ==
    IF ~IsSome(self.refresh_interval_ns) \/ ~IsSome(self.last_presentation_time)
    THEN [ret |-> t, error |-> FALSE]
    ELSE LET interval == Unwrap(self.refresh_interval_ns)
             last == Unwrap(self.last_presentation_time)
             now1 == IF t <= last THEN t + interval ELSE t
             early == t <= last /\ now1 < last
             now2 == IF early THEN last ELSE now1
             since_last_ns == now2 - last
             to_next_ns == (since_last_ns \div interval + 1) * interval
         IN [ret |-> IF self.vrr /\ to_next_ns > interval
                     THEN now2 ELSE last + to_next_ns,
             error |-> early]

\* FrameClock::next_presentation_time, `t` being get_monotonic_time(); `error`
\* tells whether the "2+ early VBlank" error was logged.
FrameClock_next_presentation_time(self, t) ==
    IF ~IsSome(self.refresh_interval_ns) \/ ~IsSome(self.last_presentation_time)
    THEN [ret |-> t, error |-> FALSE]
    ELSE LET interval == Unwrap(self.refresh_interval_ns)
             last == Unwrap(self.last_presentation_time)
             now1 == IF t <= last THEN t + interval ELSE t
             early == t <= last /\ now1 < last
             now2 == IF early THEN last + interval ELSE now1
             since_last_ns == now2 - last
             to_next_ns == (since_last_ns \div interval + 1) * interval
         IN [ret |-> IF self.vrr /\ to_next_ns > interval
                     THEN now2 ELSE last + to_next_ns,
             error |-> early]

FrameClockSelf ==
    [last_presentation_time |-> last_presentation_time,
     refresh_interval_ns |-> refresh_interval_ns,
     vrr |-> vrr]

\* A set_vrr that keeps the last presentation time
FrameClock_set_vrr_keeps_last(self, v) == [self EXCEPT !.vrr = v]

\* FrameClock::set_vrr
FrameClock_set_vrr(self, v) ==
    IF self.vrr = v THEN self
    ELSE [self EXCEPT !.vrr = v, !.last_presentation_time = None]

\* FrameClock::presented
FrameClock_presented(self, presentation_time) ==
    IF presentation_time = 0 THEN self
    ELSE [self EXCEPT !.last_presentation_time = Some(presentation_time)]

\* The frame clock becomes `self`
FrameClockBecomes(self) ==
    /\ last_presentation_time' = self.last_presentation_time
    /\ refresh_interval_ns' = self.refresh_interval_ns
    /\ vrr' = self.vrr

FcOp(op, v, presentation_time, before) ==
    [op |-> op, vrr |-> v, presentation_time |-> presentation_time,
     before |-> before]

\* FrameClock::new(refresh_interval, vrr)
FrameClock_new(refresh_interval, v) ==
    /\ last_presentation_time = None
    /\ refresh_interval_ns = refresh_interval
    /\ vrr = v

FcInit ==
    /\ \E refresh_interval \in {None} \cup {Some(i) : i \in 1..MaxInterval},
          v \in BOOLEAN : FrameClock_new(refresh_interval, v)
    /\ monotonic_time = 0
    /\ fc_ret = None
    /\ fc_op = FcOp("new", FALSE, 0, None)

FcIdle ==
    /\ FrameClock_new(None, FALSE)
    /\ monotonic_time = 0
    /\ fc_ret = None
    /\ fc_op = FcOp("new", FALSE, 0, None)

\* FrameClock::set_vrr
SetVrr(v) ==
    /\ FrameClockBecomes(FrameClock_set_vrr(FrameClockSelf, v))
    /\ fc_ret' = None
    /\ fc_op' = FcOp("set_vrr", v, 0, Some(FrameClockSelf))
    /\ UNCHANGED <<monotonic_time, beyondFc>>

\* FrameClock::presented
Presented(presentation_time) ==
    /\ FrameClockBecomes(FrameClock_presented(FrameClockSelf,
                                              presentation_time))
    /\ fc_ret' = None
    /\ fc_op' = FcOp("presented", FALSE, presentation_time,
                     Some(FrameClockSelf))
    /\ UNCHANGED <<monotonic_time, beyondFc>>

\* The monotonic clock moves on.
MonotonicTimePasses(t) ==
    /\ t > monotonic_time
    /\ monotonic_time' = t
    /\ fc_ret' = None
    /\ UNCHANGED <<last_presentation_time, refresh_interval_ns, vrr, fc_op,
                   beyondFc>>

\* A call of FrameClock::next_presentation_time
NextPresentationTime ==
    /\ fc_ret' = Some(FrameClock_next_presentation_time(FrameClockSelf,
                                                        monotonic_time))
    /\ UNCHANGED <<last_presentation_time, refresh_interval_ns, vrr,
                   monotonic_time, fc_op, beyondFc>>

FcNext ==
    \/ \E v \in BOOLEAN : SetVrr(v)
    \/ \E presentation_time \in 0..MaxMonotonic : Presented(presentation_time)
    \/ \E t \in 0..MaxMonotonic : MonotonicTimePasses(t)
    \/ NextPresentationTime

-----------------------------------------------------------------------------
\* animation/clock.rs.  A Duration is a whole number in 0..DurationMax; a rate
\* is a whole number of 1 / RateUnit.

Min(a, b) == IF a <= b THEN a ELSE b
Max(a, b) == IF a >= b THEN a ELSE b

\* Duration::saturating_add, Duration::saturating_sub
saturating_add(a, b) == Min(a + b, DurationMax)
saturating_sub(a, b) == Max(a - b, 0)

\* Duration::mul_f64(rate): the product rounded to a whole Duration; which way
\* a product half-way between two goes is left open.  The bounds keep the
\* product within DurationMax (beyond it mul_f64 panics).
mul_f64(d, r) ==
    LET q == (d * r) \div RateUnit
        rem == (d * r) % RateUnit
    IN IF 2 * rem < RateUnit THEN {q}
       ELSE IF 2 * rem > RateUnit THEN {q + 1}
       ELSE {q, q + 1}

\* A LazyClock::now that reads the monotonic clock at every call
LazyClock_now_eager(self_time, m) == Some(m)

\* LazyClock::now, `m` being get_monotonic_time(): the new LazyClock.time
LazyClock_now(self_time, m) == IF IsSome(self_time) THEN self_time ELSE Some(m)

\* An AdjustableClock::now that adds the adjusted delta when time regressed.
AdjustableClock_now_regress_adds(self, t) ==
    IF self.last_seen_time = t
    THEN {self}
    ELSE IF self.last_seen_time < t
    THEN {[self EXCEPT !.current_time = saturating_add(@, delta),
                       !.last_seen_time = t] :
              delta \in mul_f64(t - self.last_seen_time, self.rate)}
    ELSE {[self EXCEPT !.current_time = saturating_add(@, delta),
                       !.last_seen_time = t] :
              delta \in mul_f64(self.last_seen_time - t, self.rate)}

\* AdjustableClock::now after `let time = self.inner.now()`: the states it may
\* leave the clock in; current_time of the state is what it returns.
AdjustableClock_now(self, t) ==
    IF self.last_seen_time = t
    THEN {self}
    ELSE IF self.last_seen_time < t
    THEN {[self EXCEPT !.current_time = saturating_add(@, delta),
                       !.last_seen_time = t] :
              delta \in mul_f64(t - self.last_seen_time, self.rate)}
    ELSE {[self EXCEPT !.current_time = saturating_sub(@, delta),
                       !.last_seen_time = t] :
              delta \in mul_f64(self.last_seen_time - t, self.rate)}

AdjustableClockSelf ==
    [current_time |-> current_time, last_seen_time |-> last_seen_time,
     rate |-> rate]

\* AdjustableClock::new(inner), inner.now() having returned `t`
AdjustableClock_new(t) ==
    /\ time = Some(t)
    /\ current_time = t
    /\ last_seen_time = t
    /\ rate = RateUnit
    /\ complete_instantly = FALSE

\* Clock::with_time(t), or Clock::default() with get_monotonic_time() = t
ClockInit ==
    /\ \E t \in 0..MaxRaw : AdjustableClock_new(t) /\ clock_monotonic = t
    /\ rate_changed = FALSE
    /\ frame_now = {}

ClockIdle ==
    /\ AdjustableClock_new(0)
    /\ clock_monotonic = 0
    /\ rate_changed = FALSE
    /\ frame_now = {}

\* Clock::now on the clock or a clone of it (they share one AdjustableClock);
\* get_monotonic_time() is read when the LazyClock holds no time and does not
\* go back.  current_time' is what the call returns.
Clock_now ==
    \E m \in clock_monotonic..MaxRaw :
        LET t == LazyClock_now(time, m) IN
        /\ time' = t
        /\ clock_monotonic' = IF IsSome(time) THEN clock_monotonic ELSE m
        /\ \E next \in AdjustableClock_now(AdjustableClockSelf, Unwrap(t)) :
               /\ current_time' = next.current_time
               /\ last_seen_time' = next.last_seen_time
        /\ frame_now' = frame_now \cup {current_time'}
        /\ UNCHANGED <<rate, complete_instantly, rate_changed>>

ClockNow ==
    /\ Clock_now
    /\ anim_ret' = None
    /\ UNCHANGED beyondClock

\* Clock::now_unadjusted
ClockNowUnadjusted ==
    \E m \in clock_monotonic..MaxRaw :
        /\ time' = LazyClock_now(time, m)
        /\ clock_monotonic' = IF IsSome(time) THEN clock_monotonic ELSE m
        /\ anim_ret' = None
        /\ UNCHANGED <<current_time, last_seen_time, rate, complete_instantly,
                       rate_changed, frame_now, beyondClock>>

\* Clock::set_unadjusted
ClockSetUnadjusted(t) ==
    /\ time' = Some(t)
    /\ frame_now' = {}
    /\ anim_ret' = None
    /\ UNCHANGED <<current_time, last_seen_time, rate, clock_monotonic,
                   complete_instantly, rate_changed, beyondClock>>

\* Clock::clear
ClockClear ==
    /\ time' = None
    /\ frame_now' = {}
    /\ anim_ret' = None
    /\ UNCHANGED <<current_time, last_seen_time, rate, clock_monotonic,
                   complete_instantly, rate_changed, beyondClock>>

\* Clock::set_rate: rate.clamp(0., 1000.)
ClockSetRate(r) ==
    /\ rate' = Max(0, Min(r, 1000 * RateUnit))
    /\ rate_changed' = TRUE
    /\ anim_ret' = None
    /\ UNCHANGED <<time, current_time, last_seen_time, clock_monotonic,
                   complete_instantly, frame_now, beyondClock>>

\* Clock::set_complete_instantly
ClockSetCompleteInstantly(value) ==
    /\ complete_instantly' = value
    /\ anim_ret' = None
    /\ UNCHANGED <<time, current_time, last_seen_time, rate, clock_monotonic,
                   rate_changed, frame_now, beyondClock>>

ClockNext ==
    \/ ClockNow
    \/ ClockNowUnadjusted
    \/ \E t \in 0..MaxRaw : ClockSetUnadjusted(t)
    \/ ClockClear
    \/ \E r \in (0 - 1)..MaxRate : ClockSetRate(r)
    \/ \E value \in BOOLEAN : ClockSetCompleteInstantly(value)

\* ---------------------------------------------------------------------------
\* animation/mod.rs and animation/spring.rs.  For an Animation a Duration is a
\* whole number of milliseconds, an animated value (from, to) is held in
\* thousandths and a velocity in whole values per second.  A function of the
\* source that cannot return (an overflow of Duration, a panic) yields
\* Panicked.

\* Duration::MAX
Duration_MAX == 1000

\* The largest easing duration of a config, in milliseconds
MaxDurationMs == 2

\* The latest time value_at is asked about
MaxAt == 5

\* The values 0.0 and 1.0
AnimValues == {0, 1000}

Velocities == {0, 1000}

Curves == {"Linear", "EaseOutQuad", "EaseOutCubic", "EaseOutExpo"}

\* The damping ratios 0, 1/2 and 1: undamped, underdamped, critically damped
DampingRatios ==
    {[num |-> 0, den |-> 1], [num |-> 1, den |-> 2], [num |-> 1, den |-> 1]}

\* The spring configs of the model, with epsilon = 1/10000
SpringConfigs ==
    {[tag |-> "Spring", damping_ratio |-> r, stiffness |-> 4000000,
      epsilon |-> [num |-> 1, den |-> 10000]] : r \in DampingRatios}

\* The easing configs of the model: every curve over MaxDurationMs, and a
\* duration of zero
EasingConfigs ==
    {[tag |-> "Easing", duration_ms |-> MaxDurationMs, curve |-> c] :
        c \in Curves}
    \cup {[tag |-> "Easing", duration_ms |-> 0, curve |-> "Linear"]}

\* niri_config::Animation: every config of the model switched on, and two
\* of them switched off
Configs ==
    {[off |-> FALSE, kind |-> k] : k \in SpringConfigs \cup EasingConfigs}
    \cup {[off |-> TRUE, kind |-> k] :
             k \in {k \in SpringConfigs \cup EasingConfigs :
                       \/ k.tag = "Easing" /\ k.curve = "EaseOutQuad"
                       \/ k.tag = "Spring" /\ k.damping_ratio.num = k.damping_ratio.den}}

Sign(x) == IF x > 0 THEN 1 ELSE IF x < 0 THEN 0 - 1 ELSE 0

\* f64::sqrt, rounded down to a whole number, of the stiffnesses of the model
Sqrt(n) ==
    CHOOSE r \in {0, 1, 2000} : r * r <= n /\ n < (r + 1) * (r + 1)

\* f64::ln of num / den in thousandths, rounded towards zero, for the
\* quotients the model takes a logarithm of
LnMilli(num, den) ==
    CASE den = num          -> 0
      [] den = num * 1000   -> 0 - 6907
      [] den = num * 10000  -> 0 - 9210

\* What a function returns: a value known exactly, a value known to lie in
\* lo..hi, or no return at all
Exactly(v) == [panic |-> FALSE, lo |-> v, hi |-> v]
Within(a, b) == [panic |-> FALSE, lo |-> Min(a, b), hi |-> Max(a, b)]
Panicked == [panic |-> TRUE, lo |-> 0, hi |-> 0]

\* Duration + Duration: "overflow when adding durations"
Duration_add(a, b) ==
    IF a + b > Duration_MAX THEN Panicked ELSE Exactly(a + b)

\* SpringParams::new
SpringParams_new(damping_ratio, stiffness_in, epsilon) ==
    LET ratio == [damping_ratio EXCEPT !.num = Max(@, 0)]
        stiffness == Max(stiffness_in, 0)
        mass == 1
        critical_damping == 2 * Sqrt(mass * stiffness)
    IN  [damping |-> (ratio.num * critical_damping) \div ratio.den,
         mass |-> mass,
         stiffness |-> stiffness,
         epsilon |-> epsilon]

\* Spring::duration, in milliseconds.  The overdamped case (beta > omega0) is
\* outside the springs of the model.
Spring_duration(spring) ==
    LET beta == spring.params.damping \div (2 * spring.params.mass)
        omega0 == Sqrt(spring.params.stiffness \div spring.params.mass)
        x0 == (0 - LnMilli(spring.params.epsilon.num,
                           spring.params.epsilon.den)) \div beta
    IN  CASE beta <= 0 -> Duration_MAX
          [] beta > 0 /\ spring.to = spring.from -> 0
          [] beta > 0 /\ spring.to # spring.from /\ beta <= omega0
                -> x0

\* The loop of Spring::clamped_duration: the first i >= 1 with
\* oscillate(i / 1000) within epsilon of `to`, on the side of `from`.  The
\* values are those of Spring::oscillate in double precision for the springs
\* of the model, |to - from| being one whole value and |initial_velocity|
\* being 0 or 1000.
Spring_first_reach(spring) ==
    LET toward == Sign(spring.initial_velocity) * Sign(spring.to - spring.from)
    IN  CASE spring.params.damping = 2000 /\ toward = 1  -> 1
          [] spring.params.damping = 2000 /\ toward # 1  -> 2
          [] spring.params.damping = 4000 /\ toward >= 0 -> 6
          [] spring.params.damping = 4000 /\ toward < 0  -> 7

\* Spring::clamped_duration
Spring_clamped_duration(spring) ==
    LET beta == spring.params.damping \div (2 * spring.params.mass)
    IN  IF beta <= 0 THEN Some(Duration_MAX)
        ELSE IF spring.to = spring.from THEN Some(0)
        ELSE IF Spring_first_reach(spring) > 3001 THEN None
        ELSE Some(Spring_first_reach(spring))

\* Animation::ease, clock.now() having returned `now`
Animation_ease(now_, from, to, initial_velocity, duration_ms, curve) ==
    [from |-> from,
     to |-> to,
     initial_velocity |-> initial_velocity,
     is_off |-> FALSE,
     duration |-> duration_ms,
     clamped_duration |-> duration_ms,
     start_time |-> now_,
     kind |-> [tag |-> "Easing", curve |-> curve]]

\* An Animation::spring that takes the duration for the clamped duration
Animation_spring_clamped_is_duration(now_, spring) ==
    [from |-> spring.from,
     to |-> spring.to,
     initial_velocity |-> spring.initial_velocity,
     is_off |-> FALSE,
     duration |-> Spring_duration(spring),
     clamped_duration |-> Spring_duration(spring),
     start_time |-> now_,
     kind |-> [tag |-> "Spring", spring |-> spring]]

\* Animation::spring
Animation_spring(now_, spring) ==
    LET duration == Spring_duration(spring)
        clamped == Spring_clamped_duration(spring)
    IN  [from |-> spring.from,
         to |-> spring.to,
         initial_velocity |-> spring.initial_velocity,
         is_off |-> FALSE,
         duration |-> duration,
         clamped_duration |-> IF IsSome(clamped) THEN Unwrap(clamped)
                              ELSE duration,
         start_time |-> now_,
         kind |-> [tag |-> "Spring", spring |-> spring]]

\* Animation::decelerate.  The deceleration rate is held as
\* coeff = 1000 * ln(deceleration_rate), the threshold in thousandths; the
\* duration in seconds is ln(-coeff * threshold / |initial_velocity|) / coeff.
Animation_decelerate(now_, from, initial_velocity, coeff, threshold) ==
    LET duration ==
            IF initial_velocity = 0 THEN 0
            ELSE LnMilli((0 - coeff) * threshold,
                         Abs(initial_velocity) * 1000) \div coeff
        to == from - (initial_velocity * 1000) \div coeff
    IN  [from |-> from,
         to |-> to,
         initial_velocity |-> initial_velocity,
         is_off |-> FALSE,
         duration |-> duration,
         clamped_duration |-> duration,
         start_time |-> now_,
         kind |-> [tag |-> "Deceleration",
                   initial_velocity |-> initial_velocity,
                   deceleration_rate |-> coeff]]

\* A replace_config that takes the start time of the rebuilt animation
Animation_replace_config_restarts(self, config, now_) ==
    IF config.off
    THEN [self EXCEPT !.is_off = TRUE, !.duration = 0, !.clamped_duration = 0]
    ELSE IF config.kind.tag = "Spring"
    THEN Animation_spring(now_,
             [from |-> self.from, to |-> self.to,
              initial_velocity |-> self.initial_velocity,
              params |-> SpringParams_new(config.kind.damping_ratio,
                                          config.kind.stiffness,
                                          config.kind.epsilon)])
    ELSE Animation_ease(now_, self.from, self.to, self.initial_velocity,
                        config.kind.duration_ms, config.kind.curve)

\* Animation::replace_config, clock.now() returning `now_` if it is called
Animation_replace_config(self, config, now_) ==
    IF config.off
    THEN [self EXCEPT !.is_off = TRUE, !.duration = 0, !.clamped_duration = 0]
    ELSE LET start_time == self.start_time
             rebuilt ==
                 IF config.kind.tag = "Spring"
                 THEN Animation_spring(now_,
                          [from |-> self.from, to |-> self.to,
                           initial_velocity |-> self.initial_velocity,
                           params |->
                               SpringParams_new(config.kind.damping_ratio,
                                                config.kind.stiffness,
                                                config.kind.epsilon)])
                 ELSE Animation_ease(now_, self.from, self.to,
                                     self.initial_velocity,
                                     config.kind.duration_ms,
                                     config.kind.curve)
         IN  [rebuilt EXCEPT !.start_time = start_time]

\* initial_velocity / clock.rate().max(0.001)
Velocity_by_rate(initial_velocity, rate_) ==
    IF rate_ = 0 THEN initial_velocity * 1000
    ELSE (initial_velocity * RateUnit) \div rate_

\* Animation::new
Animation_new(now_, rate_, from, to, initial_velocity, config) ==
    LET rv == Animation_ease(now_, from, to,
                             Velocity_by_rate(initial_velocity, rate_),
                             0, "EaseOutCubic")
    IN  IF config.off THEN [rv EXCEPT !.is_off = TRUE]
        ELSE Animation_replace_config(rv, config, now_)

\* A restarted that gives a spring the velocity it was called with
Animation_restarted_given_v(self, now_, rate_, from, to, initial_velocity) ==
    IF self.is_off THEN self
    ELSE CASE self.kind.tag = "Easing" ->
                Animation_ease(now_, from, to,
                               Velocity_by_rate(initial_velocity, rate_),
                               self.duration, self.kind.curve)
           [] self.kind.tag = "Spring" ->
                Animation_spring(now_,
                    [from |-> from, to |-> to,
                     initial_velocity |->
                         Velocity_by_rate(initial_velocity, rate_),
                     params |-> self.kind.spring.params])
           [] self.kind.tag = "Deceleration" ->
                Animation_decelerate(now_, from, self.kind.initial_velocity,
                                     self.kind.deceleration_rate, 1)

\* Animation::restarted
Animation_restarted(self, now_, rate_, from, to, initial_velocity) ==
    IF self.is_off THEN self
    ELSE CASE self.kind.tag = "Easing" ->
                Animation_ease(now_, from, to,
                               Velocity_by_rate(initial_velocity, rate_),
                               self.duration, self.kind.curve)
           [] self.kind.tag = "Spring" ->
                Animation_spring(now_,
                    [from |-> from, to |-> to,
                     initial_velocity |-> self.initial_velocity,
                     params |-> self.kind.spring.params])
           [] self.kind.tag = "Deceleration" ->
                Animation_decelerate(now_, from, self.kind.initial_velocity,
                                     self.kind.deceleration_rate, 1)

\* Animation::is_done; `now_` is read only when the clock does not complete
\* instantly
Animation_is_done(self, instantly, now_) ==
    IF instantly THEN [panic |-> FALSE, done |-> TRUE]
    ELSE LET end == Duration_add(self.start_time, self.duration)
         IN  IF end.panic THEN [panic |-> TRUE, done |-> FALSE]
             ELSE [panic |-> FALSE, done |-> now_ >= end.lo]

\* Animation::is_clamped_done; `now_` is read only when the clock does not
\* complete instantly
Animation_is_clamped_done(self, instantly, now_) ==
    IF instantly THEN [panic |-> FALSE, done |-> TRUE]
    ELSE LET end == Duration_add(self.start_time, self.clamped_duration)
         IN  IF end.panic THEN [panic |-> TRUE, done |-> FALSE]
             ELSE [panic |-> FALSE, done |-> now_ >= end.lo]

\* Animation::end_time
Animation_end_time(self) == Duration_add(self.start_time, self.duration)

\* Curve::y at x = num / den, in thousandths, rounded down; the exponent of
\* EaseOutExpo is rounded down to a whole number
Curve_y(curve, num, den) ==
    CASE curve = "Linear" -> (num * 1000) \div den
      [] curve = "EaseOutQuad" ->
            1000 - ((den - num) * (den - num) * 1000) \div (den * den)
      [] curve = "EaseOutCubic" ->
            1000 - ((den - num) * (den - num) * (den - num) * 1000)
                       \div (den * den * den)
      [] curve = "EaseOutExpo" -> 1000 - 1000 \div (2 ^ ((10 * num) \div den))

\* The value of an animation under way, `passed` after its start.  A spring
\* and a deceleration are not computed: the spring is somewhere in the range
\* its clamp lets through, the deceleration somewhere between from and to.
Animation_value_passed(self, passed) ==
    CASE self.kind.tag = "Easing" ->
            LET x == Max(0, Min(passed, self.duration))
            IN  Exactly(((Curve_y(self.kind.curve, x, self.duration)
                          * (self.to - self.from)) \div 1000) + self.from)
      [] self.kind.tag = "Spring" ->
            LET range == (self.to - self.from) * 10
            IN  Within(self.from - range, self.to + range)
      [] self.kind.tag = "Deceleration" -> Within(self.from, self.to)

\* A value_at that asks the clock first
Animation_value_at_instantly_first(self, instantly, at) ==
    IF instantly THEN Exactly(self.to)
    ELSE IF at <= self.start_time THEN Exactly(self.from)
    ELSE LET end == Duration_add(self.start_time, self.duration)
         IN  IF end.panic THEN Panicked
             ELSE IF end.lo <= at THEN Exactly(self.to)
             ELSE Animation_value_passed(self,
                      saturating_sub(at, self.start_time))

\* A value_at for which the animation ends only after start_time + duration
Animation_value_at_strict_end(self, instantly, at) ==
    IF at <= self.start_time THEN Exactly(self.from)
    ELSE LET end == Duration_add(self.start_time, self.duration)
         IN  IF end.panic THEN Panicked
             ELSE IF end.lo < at THEN Exactly(self.to)
             ELSE IF instantly THEN Exactly(self.to)
             ELSE Animation_value_passed(self,
                      saturating_sub(at, self.start_time))

\* Animation::value_at
Animation_value_at(self, instantly, at) ==
    IF at <= self.start_time THEN Exactly(self.from)
    ELSE LET end == Duration_add(self.start_time, self.duration)
         IN  IF end.panic THEN Panicked
             ELSE IF end.lo <= at THEN Exactly(self.to)
             ELSE IF instantly THEN Exactly(self.to)
             ELSE Animation_value_passed(self,
                      saturating_sub(at, self.start_time))

\* What an Animation operation leaves behind for the claims
AnimReturned(op, at, done, value) ==
    Some([op |-> op, at |-> at, done |-> done, value |-> value])

NotDone == [panic |-> FALSE, done |-> FALSE]

\* Animation::new(clock.clone(), from, to, initial_velocity, config)
AnimationNew(from, to, initial_velocity, config) ==
    /\ animation = None
    /\ Clock_now
    /\ animation' = Some(Animation_new(current_time', rate, from, to,
                                       initial_velocity, config))
    /\ anim_config' = Some(config)
    /\ anim_ret' = AnimReturned("new", current_time', NotDone, Exactly(0))
    /\ UNCHANGED beyondAnim

\* Animation::decelerate(clock.clone(), from, initial_velocity, rate, 0.001)
\* with a deceleration rate of 1/e
AnimationDecelerate(from, initial_velocity) ==
    /\ animation = None
    /\ Clock_now
    /\ animation' = Some(Animation_decelerate(current_time', from,
                                              initial_velocity, 0 - 1000, 1))
    /\ anim_config' = None
    /\ anim_ret' = AnimReturned("decelerate", current_time', NotDone, Exactly(0))
    /\ UNCHANGED beyondAnim

\* Animation::replace_config; the clock is read only when the config is on
AnimationReplaceConfig(config) ==
    /\ IsSome(animation)
    /\ IF config.off
       THEN /\ animation' = Some(Animation_replace_config(Unwrap(animation),
                                                          config, 0))
            /\ UNCHANGED clockVars
       ELSE /\ Clock_now
            /\ animation' = Some(Animation_replace_config(Unwrap(animation),
                                                          config,
                                                          current_time'))
    /\ anim_config' = Some(config)
    /\ anim_ret' = AnimReturned("replace_config", 0, NotDone, Exactly(0))
    /\ UNCHANGED beyondAnim

\* Animation::restarted; an animation that is off is cloned without a look
\* at the clock
AnimationRestarted(from, to, initial_velocity) ==
    /\ IsSome(animation)
    /\ IF Unwrap(animation).is_off
       THEN UNCHANGED <<clockVars, animation>>
       ELSE /\ Clock_now
            /\ animation' = Some(Animation_restarted(Unwrap(animation),
                                     current_time', rate, from, to,
                                     initial_velocity))
    /\ anim_ret' = AnimReturned("restarted", 0, NotDone, Exactly(0))
    /\ UNCHANGED <<anim_config, beyondAnim>>

\* Animation::restarted, the arguments of the call kept for the claims
AnimationRestartedKept(from, to, initial_velocity) ==
    /\ IsSome(animation)
    /\ IF Unwrap(animation).is_off
       THEN UNCHANGED <<clockVars, animation>>
       ELSE /\ Clock_now
            /\ animation' = Some(Animation_restarted(Unwrap(animation),
                                     current_time', rate, from, to,
                                     initial_velocity))
    /\ anim_ret' = Some([op |-> "restarted", at |-> 0, done |-> NotDone,
                         value |-> Exactly(0), from |-> from, to |-> to,
                         initial_velocity |-> initial_velocity])
    /\ UNCHANGED <<anim_config, beyondAnim>>

\* Animation::is_done
AnimationIsDone ==
    /\ IsSome(animation)
    /\ IF complete_instantly THEN UNCHANGED clockVars ELSE Clock_now
    /\ anim_ret' = AnimReturned("is_done", current_time',
                             Animation_is_done(Unwrap(animation),
                                               complete_instantly,
                                               current_time'),
                             Exactly(0))
    /\ UNCHANGED <<animation, anim_config, beyondAnim>>

\* Animation::value: value_at(clock.now())
AnimationValue ==
    /\ IsSome(animation)
    /\ Clock_now
    /\ anim_ret' = AnimReturned("value", current_time', NotDone,
                             Animation_value_at(Unwrap(animation),
                                                complete_instantly,
                                                current_time'))
    /\ UNCHANGED <<animation, anim_config, beyondAnim>>

\* Animation::value_at(at)
AnimationValueAt(at) ==
    /\ IsSome(animation)
    /\ anim_ret' = AnimReturned("value_at", at, NotDone,
                             Animation_value_at(Unwrap(animation),
                                                complete_instantly, at))
    /\ UNCHANGED <<animation, anim_config, clockVars, beyondAnim>>

\* Animation::is_clamped_done
AnimationIsClampedDone ==
    /\ IsSome(animation)
    /\ IF complete_instantly THEN UNCHANGED clockVars ELSE Clock_now
    /\ anim_ret' = AnimReturned("is_clamped_done", current_time',
                             Animation_is_clamped_done(Unwrap(animation),
                                                       complete_instantly,
                                                       current_time'),
                             Exactly(0))
    /\ UNCHANGED <<animation, anim_config, beyondAnim>>

\* Animation::end_time
AnimationEndTime ==
    /\ IsSome(animation)
    /\ anim_ret' = AnimReturned("end_time", 0, NotDone,
                             Animation_end_time(Unwrap(animation)))
    /\ UNCHANGED <<animation, anim_config, clockVars, beyondAnim>>

AnimNext ==
    \/ \E from \in AnimValues, to \in AnimValues, v \in Velocities,
          config \in Configs : AnimationNew(from, to, v, config)
    \/ \E from \in AnimValues, v \in Velocities : AnimationDecelerate(from, v)
    \/ \E config \in Configs : AnimationReplaceConfig(config)
    \/ \E from \in AnimValues, to \in AnimValues, v \in Velocities :
          AnimationRestarted(from, to, v)
    \/ AnimationIsDone
    \/ AnimationValue
    \/ \E at \in 0..MaxAt : AnimationValueAt(at)
    \/ ClockNow
    \/ ClockClear
    \/ \E value \in BOOLEAN : ClockSetCompleteInstantly(value)

\* The animations restarted on a clock whose rate changes
RestartNext ==
    \/ \E from \in AnimValues, to \in AnimValues, v \in Velocities,
          config \in Configs : AnimationNew(from, to, v, config)
    \/ \E from \in AnimValues, v \in Velocities : AnimationDecelerate(from, v)
    \/ \E from \in AnimValues, to \in AnimValues, v \in Velocities :
          AnimationRestartedKept(from, to, v)
    \/ ClockNow
    \/ ClockClear
    \/ \E r \in {0, MaxRate} : ClockSetRate(r)

\* The animations with every query of their end
DoneNext ==
    \/ \E from \in AnimValues, to \in AnimValues, v \in Velocities,
          config \in Configs : AnimationNew(from, to, v, config)
    \/ \E from \in AnimValues, v \in Velocities : AnimationDecelerate(from, v)
    \/ \E config \in Configs : AnimationReplaceConfig(config)
    \/ \E from \in AnimValues, to \in AnimValues, v \in Velocities :
          AnimationRestarted(from, to, v)
    \/ AnimationIsDone
    \/ AnimationIsClampedDone
    \/ AnimationEndTime
    \/ \E at \in {0, MaxAt} : AnimationValueAt(at)
    \/ ClockNow
    \/ ClockClear
    \/ \E value \in BOOLEAN : ClockSetCompleteInstantly(value)

\* ---------------------------------------------------------------------------
\* window/mapped.rs: the configure flow of one Mapped window.  `mapped` holds
\* the fields of Mapped, `role` the XdgToplevelSurfaceRoleAttributes of its
\* toplevel, `geometry` is window.geometry().size.  A toplevel state is its
\* size and the Fullscreen and Resizing bits of its states; a Size is <<w, h>>.

\* The last configure serial the model hands out; the initial configure is 1
MaxSerial == 3

\* The sizes the layout asks for
ReqSizes == {<<1, 1>>, <<2, 0>>}

\* The sizes the client gives its window
GeomSizes == {<<1, 1>>, <<2, 2>>}

\* Option<Size>::unwrap_or_default
unwrap_or_default(size) == IF IsSome(size) THEN Unwrap(size) ELSE <<0, 0>>

Ongoing == Some([tag |-> "Ongoing", serial |-> 0])
WaitingForLastConfigure == Some([tag |-> "WaitingForLastConfigure", serial |-> 0])
WaitingForLastCommit(serial) ==
    Some([tag |-> "WaitingForLastCommit", serial |-> serial])

WaitingForConfigure == Some([tag |-> "WaitingForConfigure", serial |-> 0])
WaitingForCommit(serial) == Some([tag |-> "WaitingForCommit", serial |-> serial])
UseWindowSize == Some([tag |-> "UseWindowSize", serial |-> 0])

\* role.current_server_state(): the state of the last configure sent
Role_current_server_state(r) ==
    IF r.pending_configures # <<>>
    THEN r.pending_configures[Len(r.pending_configures)].state
    ELSE Unwrap(r.last_acked)

\* The state ToplevelSurface::with_pending_state hands to its closure
Role_pending_state(r) ==
    IF IsSome(r.server_pending) THEN Unwrap(r.server_pending)
    ELSE Role_current_server_state(r)

\* ToplevelSurface::with_pending_state(|state| *state = f(state))
with_pending_state(r, f(_)) ==
    [r EXCEPT !.server_pending = Some(f(Role_pending_state(r)))]

\* ToplevelSurface::send_configure with `serial` the next of SERIAL_COUNTER
send_configure(r, serial) ==
    [r EXCEPT !.pending_configures =
                  Append(@, [serial |-> serial, state |-> Role_pending_state(r)]),
              !.server_pending = None]

\* The last configure sent: (last_sent, last_serial) of request_size_once and
\* expected_size
Role_last_sent(r) ==
    IF r.pending_configures # <<>>
    THEN r.pending_configures[Len(r.pending_configures)]
    ELSE [serial |-> Unwrap(r.configure_serial), state |-> Unwrap(r.last_acked)]

\* Mapped::set_needs_configure
Mapped_set_needs_configure(m) == [m EXCEPT !.needs_configure = TRUE]

\* Mapped::request_size
Mapped_request_size(m, r, size, is_fullscreen, animate, transaction) ==
    LET m1 == IF is_fullscreen
              THEN [m EXCEPT !.is_pending_windowed_fullscreen = FALSE,
                             !.needs_configure =
                                 IF m.is_windowed_fullscreen THEN TRUE ELSE @]
              ELSE m
        changed == Role_pending_state(r).size # Some(size)
        set(state) ==
            [state EXCEPT !.size = Some(size),
                          !.fullscreen = is_fullscreen
                                         \/ m1.is_pending_windowed_fullscreen]
    IN  [mapped |->
            [m1 EXCEPT !.animate_next_configure =
                           IF changed /\ animate THEN TRUE ELSE @,
                       !.request_size_once = None,
                       !.transaction_for_next_configure =
                           IF IsSome(transaction) THEN transaction ELSE @],
         role |-> with_pending_state(r, set)]

\* Mapped::request_size_once
Mapped_request_size_once(m, r, size, animate) ==
    LET last == Role_last_sent(r)
        same_size == unwrap_or_default(last.state.size) = size
        has_fullscreen == last.state.fullscreen
        same_fullscreen == has_fullscreen = m.is_pending_windowed_fullscreen
        already_sent == same_size /\ same_fullscreen
        m1 == [m EXCEPT !.transaction_for_next_configure = None]
        changed == Role_pending_state(r).size # Some(size)
        set(state) ==
            [state EXCEPT !.size = Some(size),
                          !.fullscreen =
                              IF ~m.is_pending_windowed_fullscreen THEN FALSE
                              ELSE @]
    IN  IF already_sent
        THEN [mapped |->
                 [m1 EXCEPT !.request_size_once =
                     IF IsSome(r.current_serial)
                     THEN IF ~is_no_older_than(Unwrap(r.current_serial),
                                               last.serial)
                          THEN WaitingForCommit(last.serial)
                          ELSE UseWindowSize
                     ELSE UseWindowSize],
              role |-> r]
        ELSE [mapped |->
                 [m1 EXCEPT !.animate_next_configure =
                                IF changed /\ animate THEN TRUE ELSE @,
                            !.request_size_once = WaitingForConfigure],
              role |-> with_pending_state(r, set)]

\* A send_pending_configure that keeps the animation flag and the
\* transaction for the next configure when it has nothing to send
Mapped_send_pending_configure_keeps_unsent(m, r, geom, serial) ==
    [sent |-> FALSE, role |-> r, mapped |-> m]

\* Mapped::send_pending_configure, `serial` being the serial send_configure
\* would take.  `sent` tells whether a configure went out.
Mapped_send_pending_configure(m, r, geom, serial) ==
    LET use_window_size == m.request_size_once = UseWindowSize
        \* the role as the check for pending changes leaves it
        r1 == IF ~m.needs_configure /\ IsSome(r.server_pending)
                 /\ use_window_size
              THEN [r EXCEPT !.server_pending =
                       Some([Unwrap(@) EXCEPT !.size =
                                Role_current_server_state(r).size])]
              ELSE r
        has_pending_changes_ ==
            \/ m.needs_configure
            \/ /\ IsSome(r1.server_pending)
               /\ Unwrap(r1.server_pending) # Role_current_server_state(r1)
        setsize(state) == [state EXCEPT !.size = Some(geom)]
        r2 == IF use_window_size THEN with_pending_state(r1, setsize) ELSE r1
        last_sent_windowed_fullscreen ==
            IF m.uncommited_windowed_fullscreen # <<>>
            THEN m.uncommited_windowed_fullscreen[
                     Len(m.uncommited_windowed_fullscreen)].value
            ELSE m.is_windowed_fullscreen
    IN  IF has_pending_changes_
        THEN [sent |-> TRUE,
              role |-> send_configure(r2, serial),
              mapped |->
                [m EXCEPT
                   !.needs_configure = FALSE,
                   !.needs_frame_callback = TRUE,
                   !.animate_serials =
                       IF m.animate_next_configure THEN Append(@, serial)
                       ELSE @,
                   !.pending_transactions =
                       IF IsSome(m.transaction_for_next_configure)
                       THEN Append(@, <<serial,
                                Unwrap(m.transaction_for_next_configure)>>)
                       ELSE @,
                   !.interactive_resize =
                       IF @ = WaitingForLastConfigure
                       THEN WaitingForLastCommit(serial) ELSE @,
                   !.request_size_once =
                       IF @ = WaitingForConfigure
                       THEN WaitingForCommit(serial) ELSE @,
                   !.uncommited_windowed_fullscreen =
                       IF last_sent_windowed_fullscreen
                              # m.is_pending_windowed_fullscreen
                       THEN Append(@, [serial |-> serial,
                                value |-> m.is_pending_windowed_fullscreen])
                       ELSE @,
                   !.animate_next_configure = FALSE,
                   !.transaction_for_next_configure = None]]
        ELSE [sent |-> FALSE,
              role |-> r1,
              mapped |->
                [m EXCEPT
                   !.interactive_resize =
                       IF @ = WaitingForLastConfigure THEN None ELSE @,
                   !.animate_next_configure = FALSE,
                   !.transaction_for_next_configure = None]]

\* Mapped::is_fullscreen
Mapped_is_fullscreen(m, r) ==
    IF m.is_windowed_fullscreen THEN FALSE ELSE r.current.fullscreen

\* An expected_size that only ever looks at the window
Mapped_expected_size_of_window(m, r, geom) ==
    IF ~Mapped_is_fullscreen(m, r) THEN Some(geom) ELSE None

\* Mapped::expected_size
Mapped_expected_size(m, r, geom) ==
    LET current_size == IF ~Mapped_is_fullscreen(m, r) THEN Some(geom) ELSE None
        last == Role_last_sent(r)
        pending ==
            IF /\ IsSome(r.server_pending)
               /\ Unwrap(r.server_pending).size
                      # Role_current_server_state(r).size
            THEN Some([size |-> unwrap_or_default(Unwrap(r.server_pending).size),
                       fullscreen |-> Unwrap(r.server_pending).fullscreen])
            ELSE IF /\ IsSome(r.current_serial)
                    /\ ~is_no_older_than(Unwrap(r.current_serial), last.serial)
            THEN Some([size |-> unwrap_or_default(last.state.size),
                       fullscreen |-> last.state.fullscreen])
            ELSE None
    IN  IF m.request_size_once = UseWindowSize THEN current_size
        ELSE IF IsSome(pending)
        THEN LET size == Unwrap(pending).size
                 fullscreen == Unwrap(pending).fullscreen
             IN  IF fullscreen /\ ~m.is_pending_windowed_fullscreen THEN None
                 ELSE IF (size[1] = 0 \/ size[2] = 0) /\ ~IsSome(current_size)
                 THEN None
                 ELSE Some(<<IF size[1] = 0 THEN geom[1] ELSE size[1],
                             IF size[2] = 0 THEN geom[2] ELSE size[2]>>)
        ELSE current_size

\* Mapped::request_windowed_fullscreen
Mapped_request_windowed_fullscreen(m, r, value) ==
    LET set(state) == [state EXCEPT !.fullscreen = value]
    IN  IF m.is_pending_windowed_fullscreen = value
        THEN [mapped |-> m, role |-> r]
        ELSE [mapped |-> [m EXCEPT !.is_pending_windowed_fullscreen = value,
                                   !.needs_configure = TRUE],
              role |-> with_pending_state(r, set)]

\* Mapped::set_interactive_resize; `data` tells whether data is Some
Mapped_set_interactive_resize(m, r, data) ==
    LET set(state) == [state EXCEPT !.resizing = data]
    IN  [mapped |->
            [m EXCEPT !.interactive_resize =
                IF data THEN Ongoing
                ELSE IF @ = Ongoing THEN WaitingForLastConfigure
                ELSE @],
         role |-> with_pending_state(r, set)]

\* A cancel that goes through the end of the drag only
Mapped_cancel_interactive_resize_as_drag_end(m, r) ==
    Mapped_set_interactive_resize(m, r, FALSE)

\* Mapped::cancel_interactive_resize
Mapped_cancel_interactive_resize(m, r) ==
    LET after == Mapped_set_interactive_resize(m, r, FALSE)
    IN  [after EXCEPT !.mapped.interactive_resize = None]

\* A should_animate_commit that leaves the serials in the list
Mapped_should_animate_commit_keeps_serials(m, commit_serial) ==
    [mapped |-> m,
     should_animate |->
        \E i \in 1..Len(m.animate_serials) :
            is_no_older_than(commit_serial, m.animate_serials[i])]

\* Mapped::should_animate_commit: the window after it and what it returns
Mapped_should_animate_commit(m, commit_serial) ==
    [mapped |-> [m EXCEPT !.animate_serials =
                    SelectSeq(@, LAMBDA serial :
                        ~is_no_older_than(commit_serial, serial))],
     should_animate |->
        \E i \in 1..Len(m.animate_serials) :
            is_no_older_than(commit_serial, m.animate_serials[i])]

\* A take_pending_transaction that stops after the first transaction
Mapped_take_pending_transaction_first(m, commit_serial) ==
    IF /\ m.pending_transactions # <<>>
       /\ is_no_older_than(commit_serial, m.pending_transactions[1][1])
    THEN [mapped |-> [m EXCEPT !.pending_transactions = Tail(@)],
          rv |-> Some(m.pending_transactions[1][2])]
    ELSE [mapped |-> m, rv |-> None]

RECURSIVE Mapped_take_loop(_, _, _)
\* The while loop of Mapped::take_pending_transaction
Mapped_take_loop(m, rv, commit_serial) ==
    IF /\ m.pending_transactions # <<>>
       /\ is_no_older_than(commit_serial, m.pending_transactions[1][1])
    THEN Mapped_take_loop([m EXCEPT !.pending_transactions = Tail(@)],
                          Some(m.pending_transactions[1][2]), commit_serial)
    ELSE [mapped |-> m, rv |-> rv]

\* Mapped::take_pending_transaction: the window after it and what it returns
Mapped_take_pending_transaction(m, commit_serial) ==
    Mapped_take_loop(m, None, commit_serial)

\* A configure_intent that does not wait for the client
Mapped_configure_intent_unthrottled(m, r) ==
    IF m.needs_configure THEN "ShouldSend"
    ELSE IF IsSome(r.server_pending)
            /\ Unwrap(r.server_pending) # Role_current_server_state(r)
    THEN IF [Role_current_server_state(r) EXCEPT
                !.size = Unwrap(r.server_pending).size]
            = Unwrap(r.server_pending)
         THEN "CanSend" ELSE "ShouldSend"
    ELSE "NotNeeded"

\* Mapped::configure_intent
Mapped_configure_intent(m, r) ==
    IF m.needs_configure THEN "ShouldSend"
    ELSE IF IsSome(r.server_pending)
    THEN LET pending == Unwrap(r.server_pending)
             current_server == Role_current_server_state(r)
             current_server_same_size ==
                 [current_server EXCEPT !.size = pending.size]
         IN  IF pending # current_server
             THEN IF current_server_same_size = pending
                  THEN IF r.current.size = current_server.size
                       THEN "CanSend" ELSE "Throttled"
                  ELSE "ShouldSend"
             ELSE "NotNeeded"
    ELSE "NotNeeded"

RECURSIVE commit_windowed_fullscreen(_, _, _)
\* The retain_mut of Mapped::on_commit over uncommited_windowed_fullscreen,
\* from entry i on: the entries kept and is_windowed_fullscreen
commit_windowed_fullscreen(m, commit_serial, i) ==
    IF i > Len(m.uncommited_windowed_fullscreen) THEN
        [m EXCEPT !.uncommited_windowed_fullscreen =
            SelectSeq(@, LAMBDA e : ~is_no_older_than(commit_serial, e.serial))]
    ELSE LET e == m.uncommited_windowed_fullscreen[i]
         IN  commit_windowed_fullscreen(
                 IF is_no_older_than(commit_serial, e.serial)
                 THEN [m EXCEPT !.is_windowed_fullscreen = e.value]
                 ELSE m,
                 commit_serial, i + 1)

\* An on_commit that leaves request_size_once waiting
Mapped_on_commit_keeps_size_once(m, commit_serial) ==
    commit_windowed_fullscreen(
        [m EXCEPT !.interactive_resize =
                      IF IsSome(@) /\ Unwrap(@).tag = "WaitingForLastCommit"
                         /\ is_no_older_than(commit_serial, Unwrap(@).serial)
                      THEN None ELSE @],
        commit_serial, 1)

\* An on_commit that ends the resize at any commit
Mapped_on_commit_any_serial(m, commit_serial) ==
    commit_windowed_fullscreen(
        [m EXCEPT !.interactive_resize =
                      IF IsSome(@) /\ Unwrap(@).tag = "WaitingForLastCommit"
                      THEN None ELSE @,
                  !.request_size_once =
                      IF IsSome(@) /\ Unwrap(@).tag = "WaitingForCommit"
                         /\ is_no_older_than(commit_serial, Unwrap(@).serial)
                      THEN UseWindowSize ELSE @],
        commit_serial, 1)

\* Mapped::on_commit
Mapped_on_commit(m, commit_serial) ==
    commit_windowed_fullscreen(
        [m EXCEPT !.interactive_resize =
                      IF IsSome(@) /\ Unwrap(@).tag = "WaitingForLastCommit"
                         /\ is_no_older_than(commit_serial, Unwrap(@).serial)
                      THEN None ELSE @,
                  !.request_size_once =
                      IF IsSome(@) /\ Unwrap(@).tag = "WaitingForCommit"
                         /\ is_no_older_than(commit_serial, Unwrap(@).serial)
                      THEN UseWindowSize ELSE @],
        commit_serial, 1)

\* XdgToplevelSurfaceRoleAttributes::ack_configure
Role_ack_configure(r, serial) ==
    LET i == CHOOSE i \in 1..Len(r.pending_configures) :
                 r.pending_configures[i].serial = serial
    IN  [r EXCEPT !.last_acked = Some(r.pending_configures[i].state),
                  !.configure_serial = Some(serial),
                  !.pending_configures =
                      SelectSeq(@, LAMBDA c :
                          ~is_no_older_than(serial, c.serial))]

\* The toplevel state of a window that has just been mapped
InitialStates ==
    {[size |-> s, fullscreen |-> FALSE, resizing |-> FALSE] :
        s \in {Some(<<1, 1>>)}}

\* The history of request_size where no claim needs it
NotFollowed == [size |-> <<0, 0>>, serial |-> 0, committed |-> FALSE]

\* A non-fullscreen request_size(size) whose configure is still to be sent
Requested(size) == Some([size |-> size, serial |-> 0, committed |-> FALSE])

Follow(request) == IF size_request = NotFollowed THEN NotFollowed ELSE request

\* Mapped::new, after the initial configure, of serial `serial`, was acked
\* and committed
MappedInitAt(serial) ==
    /\ mapped = [needs_configure |-> FALSE,
                 needs_frame_callback |-> FALSE,
                 animate_next_configure |-> FALSE,
                 animate_serials |-> <<>>,
                 transaction_for_next_configure |-> None,
                 pending_transactions |-> <<>>,
                 interactive_resize |-> None,
                 request_size_once |-> None,
                 is_windowed_fullscreen |-> FALSE,
                 is_pending_windowed_fullscreen |-> FALSE,
                 uncommited_windowed_fullscreen |-> <<>>]
    /\ \E s \in InitialStates :
          role = [server_pending |-> None,
                  pending_configures |-> <<>>,
                  last_acked |-> Some(s),
                  configure_serial |-> Some(serial),
                  current |-> s,
                  current_serial |-> Some(serial)]
    /\ geometry = <<1, 1>>
    /\ next_serial = NextSerial(serial)
    /\ mapped_op = [op |-> "new", sent |-> FALSE, serial |-> 0,
                    flag |-> FALSE]

MappedInit == MappedInitAt(1)

MappedIdle ==
    /\ size_request = NotFollowed
    /\ mapped = [needs_configure |-> FALSE]
    /\ role = [server_pending |-> None]
    /\ geometry = <<1, 1>>
    /\ next_serial = 2
    /\ mapped_op = [op |-> "new", sent |-> FALSE, serial |-> 0,
                    flag |-> FALSE]

\* What an operation on the window leaves behind for the claims: its name,
\* whether it sent a configure, the serial it sent or was called with, and
\* its boolean argument or result; a commit leaves the transaction that
\* take_pending_transaction returned and the number it removed as well
MappedOp(op, has_sent, serial, flag) ==
    [op |-> op, sent |-> has_sent, serial |-> serial, flag |-> flag]

\* Mapped::set_needs_configure
MappedSetNeedsConfigure ==
    /\ ~mapped.needs_configure
    /\ mapped' = Mapped_set_needs_configure(mapped)
    /\ mapped_op' = MappedOp("set_needs_configure", FALSE, 0, FALSE)
    /\ UNCHANGED <<role, geometry, next_serial, size_request, beyondMapped>>

\* Mapped::request_size
MappedRequestSize(size, is_fullscreen, animate, transaction) ==
    LET after == Mapped_request_size(mapped, role, size, is_fullscreen,
                                     animate, transaction)
    IN  /\ mapped' = after.mapped
        /\ role' = after.role
        /\ mapped_op' = MappedOp("request_size", FALSE, 0, is_fullscreen)
        /\ size_request' = Follow(IF is_fullscreen THEN None
                                  ELSE Requested(size))
        /\ UNCHANGED <<geometry, next_serial, beyondMapped>>

\* Mapped::request_size_once
MappedRequestSizeOnce(size, animate) ==
    LET after == Mapped_request_size_once(mapped, role, size, animate)
    IN  /\ mapped' = after.mapped
        /\ role' = after.role
        /\ mapped_op' = MappedOp("request_size_once", FALSE, 0, FALSE)
        /\ size_request' = Follow(None)
        /\ UNCHANGED <<geometry, next_serial, beyondMapped>>

\* Mapped::request_windowed_fullscreen
MappedRequestWindowedFullscreen(value) ==
    LET after == Mapped_request_windowed_fullscreen(mapped, role, value)
    IN  /\ mapped' = after.mapped
        /\ role' = after.role
        /\ mapped_op' = MappedOp("request_windowed_fullscreen", FALSE, 0, value)
        /\ size_request' = Follow(None)
        /\ UNCHANGED <<geometry, next_serial, beyondMapped>>

\* Mapped::set_interactive_resize
MappedSetInteractiveResize(data) ==
    LET after == Mapped_set_interactive_resize(mapped, role, data)
    IN  /\ mapped' = after.mapped
        /\ role' = after.role
        /\ mapped_op' = MappedOp("set_interactive_resize", FALSE, 0, data)
        /\ UNCHANGED <<geometry, next_serial, size_request, beyondMapped>>

\* Mapped::cancel_interactive_resize
MappedCancelInteractiveResize ==
    LET after == Mapped_cancel_interactive_resize(mapped, role)
    IN  /\ mapped' = after.mapped
        /\ role' = after.role
        /\ mapped_op' = MappedOp("cancel_interactive_resize", FALSE, 0, FALSE)
        /\ UNCHANGED <<geometry, next_serial, size_request, beyondMapped>>

\* Mapped::send_pending_configure, where `serials` are the serials the
\* specification lets the counter hand out
MappedSendPendingConfigureWithin(serials) ==
    LET after == Mapped_send_pending_configure(mapped, role, geometry,
                                               next_serial)
    IN  /\ after.sent => next_serial \in serials
        /\ mapped' = after.mapped
        /\ role' = after.role
        /\ next_serial' = IF after.sent THEN NextSerial(next_serial)
                          ELSE next_serial
        /\ mapped_op' = MappedOp("send_pending_configure", after.sent,
                                 IF after.sent THEN next_serial ELSE 0,
                                 \/ mapped.animate_next_configure
                                 \/ IsSome(mapped.transaction_for_next_configure))
        /\ size_request' =
              IF /\ after.sent
                 /\ size_request # NotFollowed /\ IsSome(size_request)
                 /\ Unwrap(size_request).serial = 0
              THEN Some([Unwrap(size_request) EXCEPT !.serial = next_serial])
              ELSE size_request
        /\ UNCHANGED <<geometry, beyondMapped>>

\* Mapped::send_pending_configure
MappedSendPendingConfigure == MappedSendPendingConfigureWithin(2..MaxSerial)

\* xdg_surface.ack_configure(serial) from the client
ClientAckConfigure(serial) ==
    /\ \E i \in 1..Len(role.pending_configures) :
          role.pending_configures[i].serial = serial
    /\ role' = Role_ack_configure(role, serial)
    /\ mapped_op' = MappedOp("ack_configure", FALSE, serial, FALSE)
    /\ UNCHANGED <<mapped, geometry, next_serial, size_request, beyondMapped>>

\* wl_surface.commit from the client with a window of size `geom`: the acked
\* state becomes current, and the commit handler asks should_animate_commit,
\* takes the transactions of the serial and calls on_commit
MappedCommit(geom) ==
    LET serial == Unwrap(role.configure_serial)
        animated == Mapped_should_animate_commit(mapped, serial)
        taken == Mapped_take_pending_transaction(animated.mapped, serial)
    IN  /\ role' = [role EXCEPT !.current = Unwrap(role.last_acked),
                                !.current_serial = role.configure_serial]
        /\ geometry' = geom
        /\ mapped' = Mapped_on_commit(taken.mapped, serial)
        /\ mapped_op' = MappedOp("commit", FALSE, serial,
                                 animated.should_animate)
                         @@ [transaction |-> taken.rv,
                             taken |-> Len(mapped.pending_transactions)
                                 - Len(taken.mapped.pending_transactions)]
        /\ size_request' =
              IF size_request = NotFollowed \/ size_request = None
              THEN size_request
              ELSE LET request == Unwrap(size_request)
                   IN  IF request.committed THEN None
                       ELSE IF request.serial # 0 /\ serial >= request.serial
                       THEN Some([request EXCEPT !.committed = TRUE])
                       ELSE size_request
        /\ UNCHANGED <<next_serial, beyondMapped>>

\* Mapped::configure_intent, called by the layout before it asks for a size
MappedConfigureIntent ==
    /\ mapped_op' = MappedOp("configure_intent", FALSE, 0, FALSE)
                    @@ [intent |-> Mapped_configure_intent(mapped, role)]
    /\ UNCHANGED <<mapped, role, geometry, next_serial, size_request,
                   beyondMapped>>

\* The interactive resize of a window whose size the layout changes
ResizeNext ==
    \/ \E data \in BOOLEAN : MappedSetInteractiveResize(data)
    \/ MappedCancelInteractiveResize
    \/ \E size \in ReqSizes : MappedRequestSize(size, FALSE, FALSE, None)
    \/ MappedSetNeedsConfigure
    \/ MappedSendPendingConfigure
    \/ \E serial \in 2..MaxSerial : ClientAckConfigure(serial)
    \/ \E geom \in GeomSizes : MappedCommit(geom)

\* The interactive resize of a window whose layout asks what a configure
\* would do
IntentNext ==
    \/ ResizeNext
    \/ MappedConfigureIntent

\* The size requests of the layout: tiled, fullscreen, windowed fullscreen
\* and floating (request_size_once)
\* A window of size `geom` has the size that `state` asks for, a zero
\* component leaving the choice to the client
Honours(state, geom) ==
    \A i \in 1..2 :
        unwrap_or_default(state.size)[i] \in {0, geom[i]}

\* wl_surface.commit from a client that gives its window the size it was
\* asked for
MappedCommitHonoured(geom) ==
    /\ Honours(Unwrap(role.last_acked), geom)
    /\ MappedCommit(geom)

SizeNext ==
    \/ \E size \in ReqSizes, is_fullscreen \in BOOLEAN :
          MappedRequestSize(size, is_fullscreen, FALSE, None)
    \/ \E size \in ReqSizes : MappedRequestSizeOnce(size, FALSE)
    \/ \E value \in BOOLEAN : MappedRequestWindowedFullscreen(value)
    \/ MappedSetNeedsConfigure
    \/ MappedSendPendingConfigure
    \/ \E serial \in 2..MaxSerial : ClientAckConfigure(serial)
    \/ \E geom \in GeomSizes : MappedCommitHonoured(geom)

\* What travels with a configure: the animation flag, the transaction and
\* the windowed-fullscreen state
ConfigureNext ==
    \/ \E size \in ReqSizes, animate \in BOOLEAN,
          transaction \in {None, Some(1)} :
          MappedRequestSize(size, FALSE, animate, transaction)
    \/ \E size \in ReqSizes : MappedRequestSizeOnce(size, FALSE)
    \/ \E value \in BOOLEAN : MappedRequestWindowedFullscreen(value)
    \/ MappedSendPendingConfigure
    \/ \E serial \in 2..MaxSerial : ClientAckConfigure(serial)
    \/ MappedCommit(<<1, 1>>)

\* The serials handed out where the counter comes round: the window was
\* mapped with the serial before SerialMax
WrapSerials == {SerialMax, 1}

\* The configure flow of a window while the serial counter comes round
WrapNext ==
    \/ \E data \in BOOLEAN : MappedSetInteractiveResize(data)
    \/ \E animate \in BOOLEAN, transaction \in {None, Some(next_serial)} :
          MappedRequestSize(<<2, 0>>, FALSE, animate, transaction)
    \/ MappedRequestSizeOnce(<<2, 0>>, FALSE)
    \/ \E value \in BOOLEAN : MappedRequestWindowedFullscreen(value)
    \/ MappedSendPendingConfigureWithin(WrapSerials)
    \/ \E serial \in WrapSerials : ClientAckConfigure(serial)
    \/ MappedCommit(<<1, 1>>)

\* ---------------------------------------------------------------------------
\* backend/winit.rs and backend/headless.rs: rendering one output

\* The frame-callback sequence is a u32; the model wraps it here
SequenceWrap == 8

Backends == {"winit", "headless"}

Idle == [tag |-> "Idle", redraw_needed |-> FALSE]
Queued == [tag |-> "Queued", redraw_needed |-> FALSE]
WaitingForVBlank(redraw_needed) ==
    [tag |-> "WaitingForVBlank", redraw_needed |-> redraw_needed]
WaitingForEstimatedVBlank ==
    [tag |-> "WaitingForEstimatedVBlank", redraw_needed |-> FALSE]
WaitingForEstimatedVBlankAndQueued ==
    [tag |-> "WaitingForEstimatedVBlankAndQueued", redraw_needed |-> FALSE]

wrapping_add(a, b) == (a + b) % SequenceWrap

\* What render leaves: the output state, what it returns, whether it asked
\* the window for a redraw, and whether it ran into unreachable!()
Rendered(state, sequence, result, request_redraw) ==
    [redraw_state |-> state, frame_callback_sequence |-> sequence,
     result |-> result, request_redraw |-> request_redraw, panic |-> FALSE]

RenderPanicked(state, sequence) ==
    [redraw_state |-> state, frame_callback_sequence |-> sequence,
     result |-> "none", request_redraw |-> FALSE, panic |-> TRUE]

\* A Winit::render that counts only the frames it submits
Winit_render_counts_submitted(state, sequence, unfinished, damage) ==
    Rendered(Idle, IF damage THEN wrapping_add(sequence, 1) ELSE sequence,
             IF damage THEN "Submitted" ELSE "NoDamage", unfinished)

\* A Winit::render that forgets the animations
Winit_render_without_request(state, sequence, unfinished, damage) ==
    Rendered(Idle, wrapping_add(sequence, 1),
             IF damage THEN "Submitted" ELSE "NoDamage", FALSE)

\* A Winit::render that waits for a vblank after a frame
Winit_render_waits(state, sequence, unfinished, damage) ==
    Rendered(IF damage THEN WaitingForEstimatedVBlank ELSE Idle,
             wrapping_add(sequence, 1),
             IF damage THEN "Submitted" ELSE "NoDamage", unfinished)

\* Winit::render from the result of render_output on: `damage` tells whether
\* there was any, `unfinished` is output_state.unfinished_animations_remain
Winit_render(state, sequence, unfinished, damage) ==
    IF state # Queued THEN RenderPanicked(Idle, sequence)
    ELSE Rendered(Idle, wrapping_add(sequence, 1),
                  IF damage THEN "Submitted" ELSE "NoDamage", unfinished)

\* Headless::render
Headless_render(state, sequence, unfinished) ==
    IF state # Queued THEN RenderPanicked(Idle, sequence)
    ELSE Rendered(Idle, wrapping_add(sequence, 1), "Submitted", FALSE)

\* Niri::queue_redraw
Niri_queue_redraw(state) ==
    CASE state = Idle -> Queued
      [] state = Queued -> Queued
      [] state.tag = "WaitingForVBlank" -> WaitingForVBlank(TRUE)
      [] state = WaitingForEstimatedVBlank -> WaitingForEstimatedVBlankAndQueued
      [] state = WaitingForEstimatedVBlankAndQueued -> state

RenderOp(op, result) == [op |-> op, result |-> result]

RenderInit ==
    /\ backend \in Backends
    /\ redraw_state = Idle
    /\ frame_callback_sequence \in 0..(SequenceWrap - 1)
    /\ unfinished_animations_remain = FALSE
    /\ redraw_requested = FALSE
    /\ render_op = RenderOp("new", "none")

RenderIdle ==
    /\ backend = "winit"
    /\ redraw_state = Idle
    /\ frame_callback_sequence = 0
    /\ unfinished_animations_remain = FALSE
    /\ redraw_requested = FALSE
    /\ render_op = RenderOp("new", "none")

\* Niri::queue_redraw(output), from anything that changes what is shown
QueueRedraw ==
    /\ redraw_state' = Niri_queue_redraw(redraw_state)
    /\ render_op' = RenderOp("queue_redraw", "none")
    /\ UNCHANGED <<backend, frame_callback_sequence,
                   unfinished_animations_remain, redraw_requested,
                   beyondRender>>

\* WinitEvent::Redraw, which the window sends after request_redraw()
WinitRedraw ==
    /\ backend = "winit"
    /\ redraw_requested
    /\ redraw_requested' = FALSE
    /\ redraw_state' = Niri_queue_redraw(redraw_state)
    /\ render_op' = RenderOp("Redraw", "none")
    /\ UNCHANGED <<backend, frame_callback_sequence,
                   unfinished_animations_remain, beyondRender>>

\* The redraw of a queued output on the winit backend: the animations are
\* advanced, which sets the flag to `unfinished`, and Winit::render is called
WinitRender(unfinished, damage) ==
    LET after == Winit_render(redraw_state, frame_callback_sequence,
                              unfinished, damage)
    IN  /\ backend = "winit"
        /\ redraw_state = Queued
        /\ unfinished_animations_remain' = unfinished
        /\ redraw_state' = after.redraw_state
        /\ frame_callback_sequence' = after.frame_callback_sequence
        /\ redraw_requested' = (redraw_requested \/ after.request_redraw)
        /\ render_op' = RenderOp("render", after.result)
        /\ UNCHANGED <<backend, beyondRender>>

\* The redraw of a queued output on the headless backend
HeadlessRender(unfinished) ==
    LET after == Headless_render(redraw_state, frame_callback_sequence,
                                 unfinished)
    IN  /\ backend = "headless"
        /\ redraw_state = Queued
        /\ unfinished_animations_remain' = unfinished
        /\ redraw_state' = after.redraw_state
        /\ frame_callback_sequence' = after.frame_callback_sequence
        /\ redraw_requested' = (redraw_requested \/ after.request_redraw)
        /\ render_op' = RenderOp("render", after.result)
        /\ UNCHANGED <<backend, beyondRender>>

RenderNext ==
    \/ QueueRedraw
    \/ WinitRedraw
    \/ \E unfinished \in BOOLEAN, damage \in BOOLEAN :
          WinitRender(unfinished, damage)
    \/ \E unfinished \in BOOLEAN : HeadlessRender(unfinished)

\* ---------------------------------------------------------------------------
\* animation/spring.rs: duration(), clamped_duration() and value_at()

\* The searches give up past these counts
NewtonLimit == 1000
ClampedLimit == 3000

\* What an f64 of seconds can be for Duration::from_secs_f64: "finite" is a
\* number from 0 up to what a Duration holds
Seconds == {"finite", "negative", "infinite", "nan"}

\* Duration::from_secs_f64 panics on a negative, an overflowing and a NaN
\* number of seconds
from_secs_f64(secs) == IF secs = "finite" THEN "returned" ELSE "panicked"

\* The springs of the model, each with what the f64 arithmetic of
\* oscillate() gives for it:
\*   beta_zero   beta.abs() <= f64::EPSILON
\*   equal       (to - from).abs() <= f64::EPSILON
\*   overdamped  beta is above omega0 by more than f32::EPSILON
\*   envelope    x0 = -epsilon.ln() / beta
\*   bodies      the number of Newton steps after which y1 is within epsilon
\*               of `to` or is not finite any more
\*   exit        how the Newton search ends
\*   x           the x1 (converged) or x0 (nonfinite) it ends with
\*   clamped     the first millisecond at which the clamped search is past
\*               to -/+ epsilon, where it is within the first 3001
\* from -> to, initial_velocity, SpringParams::new(ratio, stiffness, epsilon):
\*   equal       0 -> 0, 0, (1.15, 850, 0.0001)
\*   overdamped  0 -> 1, 0, (6, 1200, 0.0001)
\*   critical    0 -> 1, 0, (1, 800, 0.0001)
\*   undamped    0 -> 1, 0, (0, 800, 0.0001)
\*   eps_zero    0 -> 1, 0, (1, 800, 0)
\*   eps_two     0 -> 1, 0, (0.5, 800, 2)
\*   eps_zero_over  0 -> 1, 0, (2, 800, 0)
\*   thrown      0 -> 1, -10, (1.0001, 1, 0.5)
\*   stiff       0 -> 1, -100000, (1.0001, 1000000, 0.99)
\*   reach_3000  0 -> 1, 0, (1, 4, 0.017351265236664526)
\*   reach_3001  0 -> 1, 0, (1, 4, 0.017336405110757958)
SpringOf(name) ==
    CASE name = "equal" ->
           [beta_zero |-> FALSE, equal |-> TRUE, overdamped |-> TRUE,
            envelope |-> "finite", bodies |-> 0, exit |-> "converged",
            x |-> "nan", clamped |-> None]
      [] name = "overdamped" ->
           [beta_zero |-> FALSE, equal |-> FALSE, overdamped |-> TRUE,
            envelope |-> "finite", bodies |-> 9, exit |-> "nonfinite",
            x |-> "finite", clamped |-> None]
      [] name = "critical" ->
           [beta_zero |-> FALSE, equal |-> FALSE, overdamped |-> FALSE,
            envelope |-> "finite", bodies |-> 0, exit |-> "converged",
            x |-> "finite", clamped |-> Some(416)]
      [] name = "undamped" ->
           [beta_zero |-> TRUE, equal |-> FALSE, overdamped |-> FALSE,
            envelope |-> "infinite", bodies |-> 0, exit |-> "converged",
            x |-> "nan", clamped |-> None]
      [] name = "eps_zero" ->
           [beta_zero |-> FALSE, equal |-> FALSE, overdamped |-> FALSE,
            envelope |-> "infinite", bodies |-> 0, exit |-> "converged",
            x |-> "nan", clamped |-> Some(1456)]
      [] name = "eps_two" ->
           [beta_zero |-> FALSE, equal |-> FALSE, overdamped |-> FALSE,
            envelope |-> "negative", bodies |-> 0, exit |-> "converged",
            x |-> "negative", clamped |-> Some(1)]
      [] name = "eps_zero_over" ->
           [beta_zero |-> FALSE, equal |-> FALSE, overdamped |-> TRUE,
            envelope |-> "infinite", bodies |-> 0, exit |-> "converged",
            x |-> "nan", clamped |-> None]
      [] name = "thrown" ->
           [beta_zero |-> FALSE, equal |-> FALSE, overdamped |-> TRUE,
            envelope |-> "finite", bodies |-> 6, exit |-> "converged",
            x |-> "negative", clamped |-> None]
      [] name = "reach_3000" ->
           [beta_zero |-> FALSE, equal |-> FALSE, overdamped |-> FALSE,
            envelope |-> "finite", bodies |-> 0, exit |-> "converged",
            x |-> "finite", clamped |-> Some(3000)]
      [] name = "reach_3001" ->
           [beta_zero |-> FALSE, equal |-> FALSE, overdamped |-> FALSE,
            envelope |-> "finite", bodies |-> 0, exit |-> "converged",
            x |-> "finite", clamped |-> Some(3001)]
      [] OTHER ->
           [beta_zero |-> FALSE, equal |-> FALSE, overdamped |-> TRUE,
            envelope |-> "finite", bodies |-> 0, exit |-> "limit",
            x |-> "negative", clamped |-> Some(7)]

SpringNames == {"equal", "overdamped", "critical", "undamped", "eps_zero",
                "eps_two", "eps_zero_over", "thrown", "stiff", "reach_3000",
                "reach_3001"}

\* (self.to - y1).abs() > self.params.epsilon, after `n` Newton steps
Outside(s, n) == s.exit = "limit" \/ n < s.bodies

\* !y1.is_finite(), after `n` Newton steps
NotFinite(s, n) == s.exit = "nonfinite" /\ n = s.bodies

\* The condition of the clamped search at millisecond `i`: y is still short
\* of to - epsilon (or beyond to + epsilon)
Short(s, i) == s.clamped = None \/ i < Unwrap(s.clamped)

Newton_never_gives_up(i) == FALSE

\* if i > 1000 { return Duration::ZERO; }
Newton_gives_up(i) == i > NewtonLimit

\* A search that gives up without looking past its limit
Clamped_gives_up_at_limit(i) == i >= ClampedLimit

\* if i > 3000 { return None; }
Clamped_gives_up(i) == i > ClampedLimit

SpringCall(name, fn, pc, i, result) ==
    [name |-> name, fn |-> fn, pc |-> pc, i |-> i, result |-> result]

SpringIdle == spring_call = SpringCall("equal", "none", "idle", 0, "none")

\* duration() up to its Newton search
SpringDuration(name) ==
    /\ spring_call.pc = "idle"
    /\ LET s == SpringOf(name) IN
       spring_call' =
         IF s.beta_zero THEN SpringCall(name, "duration", "returned", 0, "MAX")
         ELSE IF s.equal
         THEN SpringCall(name, "duration", "returned", 0, "ZERO")
         ELSE IF ~s.overdamped
         THEN SpringCall(name, "duration", from_secs_f64(s.envelope), 0,
                         s.envelope)
         ELSE SpringCall(name, "duration", "newton", 0, "none")
    /\ UNCHANGED beyondSpring

\* One turn of the while loop of duration(), or the end of the search
SpringNewton ==
    /\ spring_call.pc = "newton"
    /\ LET s == SpringOf(spring_call.name)
           i == spring_call.i
       IN spring_call' =
            IF ~Outside(s, i)
            THEN SpringCall(spring_call.name, "duration", from_secs_f64(s.x),
                            i, s.x)
            ELSE IF Newton_gives_up(i)
            THEN SpringCall(spring_call.name, "duration", "returned", i,
                            "ZERO")
            ELSE IF NotFinite(s, i + 1)
            THEN SpringCall(spring_call.name, "duration", from_secs_f64(s.x),
                            i + 1, s.x)
            ELSE SpringCall(spring_call.name, "duration", "newton", i + 1,
                            "none")
    /\ UNCHANGED beyondSpring

\* clamped_duration() up to its search
SpringClampedDuration(name) ==
    /\ spring_call.pc = "idle"
    /\ LET s == SpringOf(name) IN
       spring_call' =
         IF s.beta_zero
         THEN SpringCall(name, "clamped_duration", "returned", 0, "Some(MAX)")
         ELSE IF s.equal
         THEN SpringCall(name, "clamped_duration", "returned", 0, "Some(ZERO)")
         ELSE SpringCall(name, "clamped_duration", "clamped", 1, "none")
    /\ UNCHANGED beyondSpring

\* One turn of the while loop of clamped_duration(), or its end; `i` is a u16
SpringClamped ==
    /\ spring_call.pc = "clamped"
    /\ LET s == SpringOf(spring_call.name)
           i == spring_call.i
       IN spring_call' =
            IF ~Short(s, i)
            THEN SpringCall(spring_call.name, "clamped_duration", "returned",
                            i, "Some(i ms)")
            ELSE IF Clamped_gives_up(i)
            THEN SpringCall(spring_call.name, "clamped_duration", "returned",
                            i, "None")
            ELSE SpringCall(spring_call.name, "clamped_duration", "clamped",
                            (i + 1) % 65536, "none")
    /\ UNCHANGED beyondSpring

\* value_at(t): oscillate(t.as_secs_f64()), f64 arithmetic only
SpringValueAt(name) ==
    /\ spring_call.pc = "idle"
    /\ spring_call' = SpringCall(name, "value_at", "returned", 0, "f64")
    /\ UNCHANGED beyondSpring

\* The caller takes what the call gave; after a panic there is no caller left
SpringTaken ==
    /\ spring_call.pc = "returned"
    /\ spring_call' = SpringCall("equal", "none", "idle", 0, "none")
    /\ UNCHANGED beyondSpring

SpringNext ==
    \/ \E name \in SpringNames : SpringDuration(name)
    \/ SpringNewton
    \/ \E name \in SpringNames : SpringClampedDuration(name)
    \/ SpringClamped
    \/ \E name \in SpringNames : SpringValueAt(name)
    \/ SpringTaken

\* ---------------------------------------------------------------------------
\* utils/watcher.rs: the thread that polls a path

\* The modification times and the resolved files of the model
MaxModified == 2
Canons == {"niri/config.kdl", "niri2/config.kdl"}

\* (modified, canon), as the thread reads them
Props == (1..MaxModified) \X Canons

\* The changes of the path between two reads that the history counts
MaxChanges == 2

\* sync_channel(1): the notifications the channel holds before send blocks
ChannelBound == 1

Watcher_every_poll(last_props, new_props) == TRUE

\* last_props.as_ref() != Some(&new_props)
Watcher_props_changed(last_props, new_props) == last_props # Some(new_props)

WatcherThread(pc, last_props, new_props) ==
    [pc |-> pc, last_props |-> last_props, new_props |-> new_props]

WatchLog(op, changes, seen, notified) ==
    [op |-> op, changes |-> changes, seen |-> seen, notified |-> notified]

WatcherIdle ==
    /\ fs_props = None
    /\ watcher = WatcherThread("exited", None, None)
    /\ should_stop = FALSE
    /\ changed_channel = [queued |-> 0, receiver |-> FALSE]
    /\ watch_log = WatchLog("none", 0, 0, 0)

\* with_start_notification has spawned the thread, on a path that resolves or
\* does not
WatcherInit ==
    /\ fs_props \in {None} \cup {Some(p) : p \in Props}
    /\ watcher = WatcherThread("spawned", None, None)
    /\ should_stop = FALSE
    /\ changed_channel = [queued |-> 0, receiver |-> TRUE]
    /\ watch_log = WatchLog("none", 0, 0, 0)

\* The file system moves on: the file is written, removed, created, or the
\* path is made to resolve to another file
FsChange(props) ==
    /\ props # fs_props
    /\ watch_log.changes < MaxChanges
    /\ fs_props' = props
    /\ watch_log' = WatchLog("change", watch_log.changes + 1, 0, 0)
    /\ UNCHANGED <<watcher, should_stop, changed_channel, beyondWatcher>>

\* The thread starts: the first read of the path
WatcherStart ==
    /\ watcher.pc = "spawned"
    /\ watcher' = WatcherThread("sleep", fs_props, None)
    /\ watch_log' = WatchLog("start", 0, watch_log.changes, 0)
    /\ UNCHANGED <<fs_props, should_stop, changed_channel, beyondWatcher>>

\* One turn of the loop up to changed.send: the sleep is over, should_stop is
\* loaded, the path is read and compared
WatcherPoll ==
    /\ watcher.pc = "sleep"
    /\ IF should_stop
       THEN /\ watcher' = WatcherThread("exited", watcher.last_props, None)
            /\ watch_log' = WatchLog("stop", watch_log.changes, 0, 0)
       ELSE IF /\ IsSome(fs_props)
               /\ Watcher_props_changed(watcher.last_props, Unwrap(fs_props))
       THEN /\ watcher' = WatcherThread("send", watcher.last_props, fs_props)
            /\ watch_log' = WatchLog("poll", 0, watch_log.changes, 1)
       ELSE /\ watcher' = watcher
            /\ watch_log' = WatchLog("poll", 0, watch_log.changes, 0)
    /\ UNCHANGED <<fs_props, should_stop, changed_channel, beyondWatcher>>

\* changed.send(rv) returns: the channel has room, or the receiver is gone
WatcherSend ==
    /\ watcher.pc = "send"
    /\ IF ~changed_channel.receiver
       THEN /\ watcher' = WatcherThread("exited", watcher.last_props, None)
            /\ changed_channel' = changed_channel
            /\ watch_log' = WatchLog("send", watch_log.changes, 0, 0)
       ELSE /\ changed_channel.queued < ChannelBound
            /\ watcher' = WatcherThread("sleep", watcher.new_props, None)
            /\ changed_channel' = [changed_channel EXCEPT !.queued = @ + 1]
            /\ watch_log' = WatchLog("send", watch_log.changes, 0, 1)
    /\ UNCHANGED <<fs_props, should_stop, beyondWatcher>>

\* The event loop takes a notification from the channel
WatcherReceive ==
    /\ changed_channel.receiver
    /\ changed_channel.queued > 0
    /\ changed_channel' = [changed_channel EXCEPT !.queued = @ - 1]
    /\ watch_log' = WatchLog("receive", watch_log.changes, 0, 0)
    /\ UNCHANGED <<fs_props, watcher, should_stop, beyondWatcher>>

\* The event loop ends and the receiver goes with it
WatcherReceiverDropped ==
    /\ changed_channel.receiver
    /\ changed_channel' = [queued |-> 0, receiver |-> FALSE]
    /\ watch_log' = WatchLog("hangup", watch_log.changes, 0, 0)
    /\ UNCHANGED <<fs_props, watcher, should_stop, beyondWatcher>>

\* Drop for Watcher
WatcherDrop ==
    /\ ~should_stop
    /\ should_stop' = TRUE
    /\ watch_log' = WatchLog("drop", watch_log.changes, 0, 0)
    /\ UNCHANGED <<fs_props, watcher, changed_channel, beyondWatcher>>

WatcherNext ==
    \/ \E props \in {None} \cup {Some(p) : p \in Props} : FsChange(props)
    \/ WatcherStart
    \/ WatcherPoll
    \/ WatcherSend
    \/ WatcherReceive
    \/ WatcherReceiverDropped
    \/ WatcherDrop

\* ---------------------------------------------------------------------------
\* ui/screen_transition.rs.  The unadjusted time of the clock is taken in
\* units of 250 ms here, and an alpha in thousandths.

\* DELAY (250 ms) and DURATION (500 ms), in units of 250 ms
DELAY == 1
DURATION == 2

RenderTargets == {"Output", "Screencast", "ScreenCapture"}

\* ScreenTransition::new, clock.now_unadjusted() having returned `now_`
ScreenTransition_new(delay, now_) == [start_at |-> now_ + delay]

\* An is_done that completes instantly when the clock says so, as an
\* Animation does
ScreenTransition_is_done_or_instantly(self, now_) ==
    complete_instantly \/ self.start_at + DURATION <= now_

\* ScreenTransition::is_done, clock.now_unadjusted() having returned `now_`
ScreenTransition_is_done(self, now_) == self.start_at + DURATION <= now_

\* The alpha of ScreenTransition::render
ScreenTransition_alpha(self, now_) ==
    IF self.start_at + DURATION <= now_ THEN 0
    ELSE IF self.start_at <= now_
    THEN 1000 - ((now_ - self.start_at) * 1000) \div DURATION
    ELSE 1000

\* Clock::now_unadjusted on the clock of the transition: LazyClock::now
Clock_now_unadjusted ==
    \E m \in clock_monotonic..MaxRaw :
        /\ time' = LazyClock_now(time, m)
        /\ clock_monotonic' = IF IsSome(time) THEN clock_monotonic ELSE m
        /\ UNCHANGED <<current_time, last_seen_time, rate, complete_instantly,
                       rate_changed, frame_now>>

StRet(op, target, now_, done, alpha) ==
    [op |-> op, target |-> target, now |-> now_, done |-> done,
     alpha |-> alpha]

TransitionIdle ==
    /\ screen_transition = None
    /\ st_ret = StRet("none", "Output", 0, FALSE, 0)

\* ScreenTransition::new(from_texture, delay, clock.clone()); `created` and
\* `delay` are history
ScreenTransitionNew(delay) ==
    /\ Clock_now_unadjusted
    /\ screen_transition' =
          Some(ScreenTransition_new(delay, Unwrap(time'))
                  @@ [created |-> Unwrap(time'), delay |-> delay])
    /\ st_ret' = StRet("new", "Output", Unwrap(time'), FALSE, 0)
    /\ UNCHANGED beyondTransitionClock

\* ScreenTransition::is_done
ScreenTransitionIsDone ==
    /\ IsSome(screen_transition)
    /\ Clock_now_unadjusted
    /\ st_ret' = StRet("is_done", "Output", Unwrap(time'),
                       ScreenTransition_is_done(Unwrap(screen_transition),
                                                Unwrap(time')),
                       0)
    /\ UNCHANGED <<screen_transition, beyondTransitionClock>>

\* ScreenTransition::render(target)
ScreenTransitionRender(target) ==
    /\ IsSome(screen_transition)
    /\ Clock_now_unadjusted
    /\ st_ret' = StRet("render", target, Unwrap(time'), FALSE,
                       ScreenTransition_alpha(Unwrap(screen_transition),
                                              Unwrap(time')))
    /\ UNCHANGED <<screen_transition, beyondTransitionClock>>

\* The transition and what happens to its clock
TransitionNext ==
    \/ \E delay \in {0, DELAY} : ScreenTransitionNew(delay)
    \/ ScreenTransitionIsDone
    \/ \E target \in RenderTargets : ScreenTransitionRender(target)
    \/ ClockNow
    \/ ClockClear
    \/ \E r \in {0, MaxRate} : ClockSetRate(r)
    \/ \E value \in BOOLEAN : ClockSetCompleteInstantly(value)

-----------------------------------------------------------------------------
\* window/mapped.rs: the focus and the urgency of a mapped window.

\* Mapped::new: is_urgent, is_focused and need_to_recompute_rules
Mapped_new_focus ==
    [is_focused |-> FALSE, is_urgent |-> FALSE,
     need_to_recompute_rules |-> FALSE]

\* Mapped::set_is_focused
Mapped_set_is_focused(self, is_focused) ==
    IF self.is_focused = is_focused THEN self
    ELSE [self EXCEPT !.is_focused = is_focused,
                      !.is_urgent = FALSE,
                      !.need_to_recompute_rules = TRUE]

\* A set_urgent that does not look at the focus
Mapped_set_urgent_of_any(self, urgent) ==
    LET changed_ == self.is_urgent # urgent
    IN  [self EXCEPT !.is_urgent = urgent,
                     !.need_to_recompute_rules = @ \/ changed_]

\* Mapped::set_urgent
Mapped_set_urgent(self, urgent) ==
    IF self.is_focused /\ urgent THEN self
    ELSE LET changed_ == self.is_urgent # urgent
         IN  [self EXCEPT !.is_urgent = urgent,
                          !.need_to_recompute_rules = @ \/ changed_]

\* What a call leaves behind for the claims: its arguments and the window as
\* it was before the call
FocusOp(op, window, value, before) ==
    [op |-> op, window |-> window, value |-> value, before |-> before]

FocusIdle ==
    /\ focus = [w \in Windows |-> Mapped_new_focus]
    /\ focus_op = FocusOp("new", 1, FALSE, Mapped_new_focus)

\* mapped.set_is_focused(is_focused)
SetIsFocused(w, is_focused) ==
    /\ focus' = [focus EXCEPT ![w] = Mapped_set_is_focused(@, is_focused)]
    /\ focus_op' = FocusOp("set_is_focused", w, is_focused, focus[w])
    /\ UNCHANGED beyondFocus

\* mapped.set_urgent(urgent)
SetUrgent(w, urgent) ==
    /\ focus' = [focus EXCEPT ![w] = Mapped_set_urgent(@, urgent)]
    /\ focus_op' = FocusOp("set_urgent", w, urgent, focus[w])
    /\ UNCHANGED beyondFocus

\* mapped.recompute_window_rules_if_needed(..): the value kept is what it
\* returned when the new rules differ from the old ones
RecomputeWindowRulesIfNeeded(w, rules_differ) ==
    /\ focus' = [focus EXCEPT ![w].need_to_recompute_rules = FALSE]
    /\ focus_op' = FocusOp("recompute_window_rules_if_needed", w,
                           focus[w].need_to_recompute_rules /\ rules_differ,
                           focus[w])
    /\ UNCHANGED beyondFocus

FocusNext ==
    \/ \E w \in Windows, is_focused \in BOOLEAN : SetIsFocused(w, is_focused)
    \/ \E w \in Windows, urgent \in BOOLEAN : SetUrgent(w, urgent)
    \/ \E w \in Windows, rules_differ \in BOOLEAN :
          RecomputeWindowRulesIfNeeded(w, rules_differ)

-----------------------------------------------------------------------------
\* dbus/freedesktop_screensaver.rs: the org.freedesktop.ScreenSaver object and
\* the task that watches for clients that disappear.  zbus runs one method
\* call on the object at a time (the methods take &mut self); the task runs
\* beside them.  The Mutex of the map is held by a method call from the step
\* that locks it to the step that returns; the steps of the task that lock it
\* wait until it is free.

\* What counter.wrapping_add(1) wraps at: stands for 2^32
CookieWrap == 4

\* The unique names of the D-Bus clients
ClientNames == {":1.1", ":1.2"}

\* The cookies a client may hand to un_inhibit
Cookies == 0..(CookieWrap - 1)

\* HashMap::new()
NoInhibitors == [k \in {} |-> ":1.1"]

\* The map is held by the method call under way
InhibitorsLocked == saver_call.pc # "idle"

\* self.counter = self.counter.wrapping_add(1); if self.counter == 0
\* { self.counter += 1; }
Counter_next(c) ==
    LET n == (c + 1) % CookieWrap
    IN  IF n = 0 THEN 1 ELSE n

\* The loop of inhibit: up to `tries` counters are tried for a vacant entry
RECURSIVE Inhibit_cookie(_, _, _)
Inhibit_cookie(map, c, tries) ==
    IF tries = 0 THEN [counter |-> c, cookie |-> None]
    ELSE LET n == Counter_next(c)
         IN  IF n \notin DOMAIN map
             THEN [counter |-> n, cookie |-> Some(n)]
             ELSE Inhibit_cookie(map, n, tries - 1)

\* inhibitors.remove(&cookie)
Inhibitors_remove(map, cookie) ==
    [k \in DOMAIN map \ {cookie} |-> map[k]]

\* inhibitors.retain(|_, owner| owner != name)
Inhibitors_retain(map, name) ==
    [k \in {k \in DOMAIN map : map[k] # name} |-> map[k]]

SaverCall(pc, cookie) == [pc |-> pc, cookie |-> cookie]

SaverRet(op, result, cookie) == [op |-> op, result |-> result, cookie |-> cookie]

\* ScreenSaver::new and start(): nothing is inhibited and the task watches
SaverIdle ==
    /\ is_inhibited = FALSE
    /\ is_broken = FALSE
    /\ inhibitors = NoInhibitors
    /\ counter = 0
    /\ saver_call = SaverCall("idle", 0)
    /\ monitor_task = "monitoring"
    /\ saver_ret = SaverRet("new", "Ok", 0)

\* inhibit() of a message without a sender
InhibitNoSender ==
    /\ saver_call.pc = "idle"
    /\ saver_ret' = SaverRet("inhibit", "no sender", 0)
    /\ UNCHANGED <<is_inhibited, is_broken, inhibitors, counter, saver_call,
                   monitor_task, beyondSaver>>

\* inhibit() from the lock of the map to the insertion of the entry, or to
\* the return when three counters in a row are taken
InhibitInsert(name) ==
    /\ saver_call.pc = "idle"
    /\ LET found == Inhibit_cookie(inhibitors, counter, 3)
       IN  /\ counter' = found.counter
           /\ IF IsSome(found.cookie)
              THEN /\ inhibitors' = (Unwrap(found.cookie) :> name) @@ inhibitors
                   /\ saver_call' = SaverCall("inserted", Unwrap(found.cookie))
                   /\ UNCHANGED saver_ret
              ELSE /\ saver_ret' = SaverRet("inhibit", "no available cookie", 0)
                   /\ UNCHANGED <<inhibitors, saver_call>>
    /\ UNCHANGED <<is_inhibited, is_broken, monitor_task, beyondSaver>>

\* inhibit() from self.is_inhibited.store(true) to its return, which unlocks
\* the map
InhibitStore ==
    /\ saver_call.pc = "inserted"
    /\ is_inhibited' = TRUE
    /\ saver_call' = SaverCall("idle", 0)
    /\ saver_ret' = SaverRet("inhibit", "Ok", saver_call.cookie)
    /\ UNCHANGED <<is_broken, inhibitors, counter, monitor_task, beyondSaver>>

\* un_inhibit(cookie)
UnInhibit(cookie) ==
    /\ saver_call.pc = "idle"
    /\ IF cookie \in DOMAIN inhibitors
       THEN /\ inhibitors' = Inhibitors_remove(inhibitors, cookie)
            /\ is_inhibited' = IF DOMAIN inhibitors' = {} THEN FALSE
                               ELSE is_inhibited
            /\ saver_ret' = SaverRet("un_inhibit", "Ok", cookie)
       ELSE /\ saver_ret' = SaverRet("un_inhibit", "invalid cookie", cookie)
            /\ UNCHANGED <<inhibitors, is_inhibited>>
    /\ UNCHANGED <<is_broken, counter, saver_call, monitor_task, beyondSaver>>

\* monitor_disappeared_clients: the client `name` has gone
ClientDisappeared(name) ==
    /\ monitor_task = "monitoring"
    /\ ~InhibitorsLocked
    /\ inhibitors' = Inhibitors_retain(inhibitors, name)
    /\ is_inhibited' = (DOMAIN inhibitors' # {})
    /\ UNCHANGED <<is_broken, counter, saver_call, monitor_task, saver_ret,
                   beyondSaver>>

\* monitor_disappeared_clients returns an error: is_broken.store(true)
MonitorFails ==
    /\ monitor_task = "monitoring"
    /\ is_broken' = TRUE
    /\ monitor_task' = "broken"
    /\ UNCHANGED <<is_inhibited, inhibitors, counter, saver_call, saver_ret,
                   beyondSaver>>

\* is_inhibited.store(false) after the error: the map is not locked for it
FailureClearsFlag ==
    /\ monitor_task = "broken"
    /\ is_inhibited' = FALSE
    /\ monitor_task' = "flag_cleared"
    /\ UNCHANGED <<is_broken, inhibitors, counter, saver_call, saver_ret,
                   beyondSaver>>

\* inhibitors.lock().unwrap().clear() after the error; the task ends
FailureClearsInhibitors ==
    /\ monitor_task = "flag_cleared"
    /\ ~InhibitorsLocked
    /\ inhibitors' = NoInhibitors
    /\ monitor_task' = "ended"
    /\ UNCHANGED <<is_inhibited, is_broken, counter, saver_call, saver_ret,
                   beyondSaver>>

SaverNext ==
    \/ InhibitNoSender
    \/ \E name \in ClientNames : InhibitInsert(name)
    \/ InhibitStore
    \/ \E cookie \in Cookies : UnInhibit(cookie)
    \/ \E name \in ClientNames : ClientDisappeared(name)
    \/ MonitorFails
    \/ FailureClearsFlag
    \/ FailureClearsInhibitors

-----------------------------------------------------------------------------
\* ui/config_error_notification.rs.  The notification reads the shared Clock.
\* Its times are counted in frames: the clock goes on by one from a frame to
\* the next, an open or close animation takes 0 or MaxDurationMs of them, and
\* the notification stays for the 4 s or 8 s of the source at 2 s a frame.

\* Duration::from_secs(4) and Duration::from_secs(8)
SHOWN_ERROR == 2
SHOWN_CREATED == 4

\* config.animations.config_notification_open_close: an easing over
\* MaxDurationMs, an easing of no duration, and an animation switched off
NotifConfigs ==
    {c \in Configs :
        /\ c.kind.tag = "Easing"
        /\ c.kind.curve \in {"Linear", "EaseOutQuad"}
        /\ c.off \/ c.kind.curve = "Linear"}

\* The path of a config file that was created
Paths == {"config.kdl"}

\* enum State
Hidden == [tag |-> "Hidden"]
Showing(anim) == [tag |-> "Showing", anim |-> anim]
Shown(deadline) == [tag |-> "Shown", deadline |-> deadline]
Hiding(anim) == [tag |-> "Hiding", anim |-> anim]

\* ConfigErrorNotification::new
ConfigErrorNotification_new == [state |-> Hidden, created_path |-> None]

\* ConfigErrorNotification::animation
ConfigErrorNotification_animation(now_, rate_, from, to, config) ==
    Animation_new(now_, rate_, from, to, 0, config)

\* ConfigErrorNotification::show_created; `anim` is self.animation(0., 1.)
ConfigErrorNotification_show_created(self, created_path, anim) ==
    [self EXCEPT !.created_path = Some(created_path),
                 !.state = Showing(anim)]

\* ConfigErrorNotification::show; `anim` is self.animation(0., 1.)
ConfigErrorNotification_show(self, anim) ==
    [self EXCEPT !.created_path = None, !.state = Showing(anim)]

\* A hide that starts the animation whatever the state
ConfigErrorNotification_hide_from_any(self, anim) ==
    [self EXCEPT !.state = Hiding(anim)]

\* ConfigErrorNotification::hide; `anim` is self.animation(1., 0.)
ConfigErrorNotification_hide(self, anim) ==
    IF self.state.tag = "Hidden" THEN self
    ELSE [self EXCEPT !.state = Hiding(anim)]

\* ConfigErrorNotification::advance_animations, clock.now() returning `now_`
\* and self.animation(1., 0.) `anim`
ConfigErrorNotification_advance_animations(self, instantly, now_, anim) ==
    CASE self.state.tag = "Hidden" -> self
      [] self.state.tag = "Showing" ->
           IF Animation_is_done(self.state.anim, instantly, now_).done
           THEN LET duration == IF IsSome(self.created_path)
                                THEN SHOWN_CREATED ELSE SHOWN_ERROR
                IN  [self EXCEPT !.state = Shown(now_ + duration)]
           ELSE self
      [] self.state.tag = "Shown" ->
           IF now_ >= self.state.deadline
           THEN ConfigErrorNotification_hide(self, anim)
           ELSE self
      [] self.state.tag = "Hiding" ->
           IF Animation_is_clamped_done(self.state.anim, instantly,
                                        now_).done
           THEN [self EXCEPT !.state = Hidden]
           ELSE self

\* ConfigErrorNotification::are_animations_ongoing
ConfigErrorNotification_are_animations_ongoing(self) ==
    self.state.tag # "Hidden"

\* What a call leaves behind for the claims: its name, what it returned and
\* the state it found
NotifOp(op, ongoing, before) ==
    [op |-> op, ongoing |-> ongoing, before |-> before]

NotifIdle ==
    /\ notification = ConfigErrorNotification_new
    /\ notif_op = NotifOp("new", FALSE, "Hidden")
    /\ notif_advanced = 0

\* The frame the clock is in
Frame == Unwrap(time)

\* The latest frame a notification shown in still gets through its open
\* animation, its stay and its close animation within the frames of the model
LatestShow == DurationMax - (2 * MaxDurationMs + SHOWN_CREATED)

\* The latest frame a close animation started in still ends within the frames
\* of the model
LatestHide == DurationMax - MaxDurationMs

\* show_created(path)
NotificationShowCreated(created_path, config) ==
    /\ Frame <= LatestShow
    /\ Clock_now
    /\ notification' =
          ConfigErrorNotification_show_created(notification, created_path,
              ConfigErrorNotification_animation(current_time', rate, 0, 1000,
                                                config))
    /\ notif_op' = NotifOp("show_created", FALSE, notification.state.tag)
    /\ UNCHANGED <<notif_advanced, anim_ret, beyondNotifClock>>

\* show()
NotificationShow(config) ==
    /\ Frame <= LatestShow
    /\ Clock_now
    /\ notification' =
          ConfigErrorNotification_show(notification,
              ConfigErrorNotification_animation(current_time', rate, 0, 1000,
                                                config))
    /\ notif_op' = NotifOp("show", FALSE, notification.state.tag)
    /\ UNCHANGED <<notif_advanced, anim_ret, beyondNotifClock>>

\* hide(); a hidden notification returns before it builds an animation
NotificationHide(config) ==
    /\ Frame <= LatestHide
    /\ IF notification.state.tag = "Hidden"
       THEN /\ UNCHANGED clockVars
            /\ notification' =
                  ConfigErrorNotification_hide(notification,
                      ConfigErrorNotification_animation(current_time, rate,
                                                        1000, 0, config))
       ELSE /\ Clock_now
            /\ notification' =
                  ConfigErrorNotification_hide(notification,
                      ConfigErrorNotification_animation(current_time', rate,
                                                        1000, 0, config))
    /\ notif_op' = NotifOp("hide", FALSE, notification.state.tag)
    /\ UNCHANGED <<notif_advanced, anim_ret, beyondNotifClock>>

\* advance_animations(), called in the frame the clock is in.  The clock is
\* read unless the notification is hidden, or is hiding on a clock that
\* completes instantly.
AdvanceAnimations(config) ==
    /\ IF \/ notification.state.tag = "Hidden"
          \/ notification.state.tag = "Hiding" /\ complete_instantly
       THEN /\ UNCHANGED clockVars
            /\ notification' =
                  ConfigErrorNotification_advance_animations(notification,
                      complete_instantly, current_time,
                      ConfigErrorNotification_animation(current_time, rate,
                                                        1000, 0, config))
       ELSE /\ Clock_now
            /\ notification' =
                  ConfigErrorNotification_advance_animations(notification,
                      complete_instantly, current_time',
                      ConfigErrorNotification_animation(current_time', rate,
                                                        1000, 0, config))
    /\ notif_op' = NotifOp("advance_animations", FALSE, notification.state.tag)
    /\ notif_advanced' = Frame
    /\ UNCHANGED <<anim_ret, beyondNotifClock>>

\* are_animations_ongoing()
AreAnimationsOngoing ==
    /\ notif_op' = NotifOp("are_animations_ongoing",
              ConfigErrorNotification_are_animations_ongoing(notification),
              notification.state.tag)
    /\ UNCHANGED <<notification, notif_advanced, clockVars, anim_ret,
                   beyondNotifClock>>

\* The next frame begins once advance_animations has run in this one: the
\* clock is set one frame on
NextFrame ==
    /\ notif_advanced = Frame
    /\ Frame < DurationMax
    /\ ClockSetUnadjusted(Frame + 1)

NotifNext ==
    \/ \E created_path \in Paths, config \in NotifConfigs :
          NotificationShowCreated(created_path, config)
    \/ \E config \in NotifConfigs : NotificationShow(config)
    \/ \E config \in NotifConfigs : NotificationHide(config)
    \/ \E config \in NotifConfigs : AdvanceAnimations(config)
    \/ AreAnimationsOngoing
    \/ NextFrame
    \/ \E value \in BOOLEAN : ClockSetCompleteInstantly(value)

-----------------------------------------------------------------------------
\* The specifications.

AnimIdle ==
    /\ animation = None
    /\ anim_config = None
    /\ anim_ret = None

TransactionInit == TxInit /\ FcIdle /\ ClockIdle /\ AnimIdle /\ MappedIdle /\ RenderIdle /\ SpringIdle /\ WatcherIdle /\ TransitionIdle /\ FocusIdle /\ SaverIdle /\ NotifIdle

SpecTransaction == TransactionInit /\ [][TransactionNext]_vars

SpecTx == TransactionInit /\ [][TxNext]_vars

FrameClockInit == TxInit /\ FcInit /\ ClockIdle /\ AnimIdle /\ MappedIdle /\ RenderIdle /\ SpringIdle /\ WatcherIdle /\ TransitionIdle /\ FocusIdle /\ SaverIdle /\ NotifIdle

SpecFrameClock == FrameClockInit /\ [][FcNext]_vars

AdjustableClockInit == TxInit /\ FcIdle /\ ClockInit /\ AnimIdle /\ MappedIdle /\ RenderIdle /\ SpringIdle /\ WatcherIdle /\ TransitionIdle /\ FocusIdle /\ SaverIdle /\ NotifIdle

SpecClock == AdjustableClockInit /\ [][ClockNext]_vars

AnimationInit == TxInit /\ FcIdle /\ ClockIdle /\ AnimIdle /\ MappedIdle /\ RenderIdle /\ SpringIdle /\ WatcherIdle /\ TransitionIdle /\ FocusIdle /\ SaverIdle /\ NotifIdle

SpecAnimation == AnimationInit /\ [][AnimNext]_vars

SpecDone == AnimationInit /\ [][DoneNext]_vars

SpecRestart == AnimationInit /\ [][RestartNext]_vars

SpecTransition == AnimationInit /\ [][TransitionNext]_vars

MappedWindowInit ==
    /\ TxInit /\ FcIdle /\ ClockIdle /\ AnimIdle /\ MappedInit /\ RenderIdle /\ SpringIdle /\ WatcherIdle /\ TransitionIdle /\ FocusIdle /\ SaverIdle /\ NotifIdle
    /\ size_request = NotFollowed

\* The window with its requests of a size followed
SizeInit ==
    /\ TxInit /\ FcIdle /\ ClockIdle /\ AnimIdle /\ MappedInit /\ RenderIdle /\ SpringIdle /\ WatcherIdle /\ TransitionIdle /\ FocusIdle /\ SaverIdle /\ NotifIdle
    /\ size_request = None

SpecResize == MappedWindowInit /\ [][ResizeNext]_vars

SpecSize == SizeInit /\ [][SizeNext]_vars

SpecConfigure == MappedWindowInit /\ [][ConfigureNext]_vars

\* The config error notification over the frames of the clock
NotificationInit == TxInit /\ FcIdle /\ ClockIdle /\ AnimIdle /\ MappedIdle /\ RenderIdle /\ SpringIdle /\ WatcherIdle /\ TransitionIdle /\ FocusIdle /\ SaverIdle /\ NotifIdle

SpecNotification == NotificationInit /\ [][NotifNext]_vars

\* The clock keeps advancing and advance_animations is called in every frame
SpecNotificationLive ==
    /\ NotificationInit
    /\ [][NotifNext]_vars
    /\ WF_vars(NextFrame)
    /\ WF_vars(\E config \in NotifConfigs : AdvanceAnimations(config))

\* The ScreenSaver object, its clients and its monitor task
ScreenSaverInit == TxInit /\ FcIdle /\ ClockIdle /\ AnimIdle /\ MappedIdle /\ RenderIdle /\ SpringIdle /\ WatcherIdle /\ TransitionIdle /\ FocusIdle /\ SaverIdle /\ NotifIdle

SpecScreenSaver == ScreenSaverInit /\ [][SaverNext]_vars

\* The focus and the urgency of the mapped windows
FocusInit == TxInit /\ FcIdle /\ ClockIdle /\ AnimIdle /\ MappedIdle /\ RenderIdle /\ SpringIdle /\ WatcherIdle /\ TransitionIdle /\ FocusIdle /\ SaverIdle /\ NotifIdle

SpecFocus == FocusInit /\ [][FocusNext]_vars

SpecIntent == MappedWindowInit /\ [][IntentNext]_vars

\* The window was mapped just before the serial counter comes round
WrapInit ==
    /\ TxInit /\ FcIdle /\ ClockIdle /\ AnimIdle /\ RenderIdle
    /\ SpringIdle /\ WatcherIdle /\ TransitionIdle /\ FocusIdle /\ SaverIdle /\ NotifIdle
    /\ MappedInitAt(SerialMax - 1)
    /\ size_request = NotFollowed

SpecWrap == WrapInit /\ [][WrapNext]_vars

WatchInit ==
    /\ TxInit /\ FcIdle /\ ClockIdle /\ AnimIdle /\ MappedIdle /\ RenderIdle
    /\ SpringIdle /\ WatcherInit /\ TransitionIdle /\ FocusIdle /\ SaverIdle /\ NotifIdle

SpecWatcher == WatchInit /\ [][WatcherNext]_vars

SpringInit ==
    /\ TxInit /\ FcIdle /\ ClockIdle /\ AnimIdle /\ MappedIdle /\ RenderIdle
    /\ SpringIdle /\ WatcherIdle /\ TransitionIdle /\ FocusIdle /\ SaverIdle /\ NotifIdle

SpecSpring == SpringInit /\ [][SpringNext]_vars

\* A call that is under way goes on
SpecSpringLive ==
    /\ SpringInit /\ [][SpringNext]_vars
    /\ WF_vars(SpringNewton) /\ WF_vars(SpringClamped)

OutputInit ==
    /\ TxInit /\ FcIdle /\ ClockIdle /\ AnimIdle /\ MappedIdle
    /\ RenderInit /\ SpringIdle /\ WatcherIdle /\ TransitionIdle /\ FocusIdle /\ SaverIdle /\ NotifIdle

SpecRender == OutputInit /\ [][RenderNext]_vars

\* The window system delivers the Redraw event that was asked for, and a
\* queued output is rendered
SpecRenderLive ==
    /\ OutputInit /\ [][RenderNext]_vars
    /\ WF_vars(WinitRedraw)

-----------------------------------------------------------------------------
\* Claims about the transactions.

Born == {t \in TxIds : txs[t].born}

InQueue(t, w) ==
    \E i \in 1..Len(pending_transactions[w]) : pending_transactions[w][i].tx = t

HasBlocker(t) == \E w \in Windows : t \in blockers_on[w]

\* The number of places of `x` in the sequence `q`
Occurrences(q, x) == Cardinality({i \in 1..Len(q) : q[i] = x})

\* C1, as stated: the blocker that a committing window put on a transaction
\* handed to several windows is not Released before the deadline fires unless
\* every window the transaction was handed to has committed at or after the
\* serial of the configure that carried it.
C1_released_only_after_all_commit ==
    \A t \in Born :
        (/\ TransactionBlocker_state(St, t) = "Released"
         /\ ~deadline_fired[t]
         /\ Cardinality(handed[t]) >= 2
         /\ took[t] # {})
            => handed[t] \subseteq took[t]

\* C1, amended: before the deadline fires, the blockers of a transaction are
\* Released only when no clone of it is left: the layout let go of its handle
\* and every window it was handed to has dropped its clone, by committing at
\* or after the serial of the configure that carried it, by a
\* send_pending_configure that had nothing to send, or by a later request_size
\* or request_size_once.  A clone in pending_transactions carries the serial of
\* a configure that was sent, and the serials of a queue increase.
C1_released_when_no_clone_is_left ==
    /\ \A t \in Born :
        (TransactionBlocker_state(St, t) = "Released" /\ ~deadline_fired[t])
            => /\ ~layout_tx[t]
               /\ \A w \in Windows :
                      /\ transaction_for_next_configure[w] # Some(t)
                      /\ ~InQueue(t, w)
    /\ \A w \in Windows : \A i \in 1..Len(pending_transactions[w]) :
           /\ pending_transactions[w][i].serial < serial_counter
           /\ \A j \in 1..(i - 1) :
                  pending_transactions[w][j].serial < pending_transactions[w][i].serial

\* A transaction handed to every window is Released before its deadline, a
\* window having taken it at a commit.
C1_witness ==
    \E t \in Born :
        /\ TransactionBlocker_state(St, t) = "Released"
        /\ ~deadline_fired[t]
        /\ handed[t] = Windows
        /\ took[t] # {}

\* C2: before the deadline fires, a transaction is completed exactly when no
\* live clone is left (so dropping one of two or more clones does not complete
\* it), and while a clone lives every blocker made from it reports Pending.
C2_completes_at_last_drop ==
    \A t \in Born :
        ~deadline_fired[t] =>
            /\ txs[t].completed <=> txs[t].strong = 0
            /\ txs[t].strong > 0 => TransactionBlocker_state(St, t) = "Pending"
            /\ txs[t].strong = 0 => TransactionBlocker_state(St, t) = "Released"

\* The last clone was dropped before the deadline, with a blocker made and a
\* client notified.
C2_witness ==
    \E t \in Born :
        /\ ~deadline_fired[t]
        /\ txs[t].strong = 0
        /\ txs[t].completed
        /\ sent[t] # <<>>
        /\ HasBlocker(t)

\* C3, as stated: once more than 300 ms have passed since a transaction was
\* created, it is completed.
C3_completed_after_time_limit ==
    \A t \in Born : now > txs[t].deadline.at => txs[t].completed

\* C3, amended: a transaction whose deadline timer was registered is completed
\* when the event loop has run that timer, which it does no earlier than 300 ms
\* after the creation; its blockers are then Released and the clients that
\* registered have been notified.  A live transaction whose timer was never
\* registered is not completed, however much time has passed.
C3_completed_when_timer_ran ==
    \A t \in Born :
        /\ evloop[t].timer = "dropped" =>
               /\ txs[t].completed
               /\ TransactionBlocker_state(St, t) = "Released"
               /\ now >= txs[t].deadline.at
               /\ Len(sent[t]) = Len(registered[t])
        /\ evloop[t].timer # "none" => evloop[t].due = txs[t].deadline.at
        /\ (txs[t].strong > 0 /\ ~txs[t].deadline.registered) => ~txs[t].completed

\* The deadline completed a transaction of which a clone still lives, with a
\* blocker made and a client notified.
C3_witness ==
    \E t \in Born :
        /\ evloop[t].timer = "dropped"
        /\ deadline_fired[t]
        /\ txs[t].strong > 0
        /\ sent[t] # <<>>
        /\ HasBlocker(t)

\* C4: completion is one-shot and monotonic.  A completed transaction stays
\* completed, its blockers stay Released, a further trigger sends nothing
\* more; and a blocker is Released exactly if the completion has occurred.
C4_completion_is_monotonic ==
    /\ [](\A t \in Born :
             TransactionBlocker_state(St, t) = "Released" <=> txs[t].completed)
    /\ [][\A t \in Born :
             txs[t].completed =>
                /\ txs'[t].completed
                /\ TransactionBlocker_state(
                       [txs |-> txs', evloop |-> evloop', chan |-> chan',
                        sent |-> sent'], t) = "Released"
                /\ sent'[t] = sent[t]]_vars

\* The timer ran after the last drop had completed the transaction.
C4_witness ==
    \E t \in Born :
        /\ txs[t].completed
        /\ txs[t].strong = 0
        /\ evloop[t].timer = "dropped"
        /\ ~deadline_fired[t]
        /\ sent[t] # <<>>

\* C5, as stated: when a transaction has completed, every (channel, client)
\* pair accepted by add_notification has been sent, on that channel, as many
\* times as it was registered.
C5_sent_on_registered_channel ==
    \A t \in Born :
        txs[t].completed =>
            \A i \in 1..Len(registered[t]) :
                Occurrences(sent[t], registered[t][i])
                    = Occurrences(registered[t], registered[t][i])

\* C5, amended: nothing is sent before completion; when a transaction has
\* completed, the clients accepted by add_notification have been sent once
\* each, in the order of their registration, all of them on the channel of
\* the first accepted add_notification; and nothing is sent again later.
C5_sent_on_first_channel ==
    \A t \in Born :
        /\ ~txs[t].completed => sent[t] = <<>>
        /\ txs[t].completed =>
               sent[t] = [i \in 1..Len(registered[t]) |->
                             <<registered[t][1][1], registered[t][i][2]>>]

\* A completed transaction with two clients registered on different channels
C5_witness ==
    \E t \in Born :
        /\ txs[t].completed
        /\ Len(registered[t]) = 2
        /\ registered[t][1][1] # registered[t][2][1]
        /\ Len(sent[t]) = 2

-----------------------------------------------------------------------------
\* Claims about the frame clock.  A query is a state in which
\* next_presentation_time has just returned, for a clock with a refresh
\* interval I and a last presentation time T.

Queried ==
    IsSome(fc_ret) /\ IsSome(refresh_interval_ns) /\ IsSome(last_presentation_time)

I == Unwrap(refresh_interval_ns)
T == Unwrap(last_presentation_time)
Returned == Unwrap(fc_ret).ret

\* The times T + k * I, k >= 1, within reach of the model
Grid == {T + k * I : k \in 1..(MaxMonotonic + 2)}

\* C6: for now >= T, next_presentation_time returns T + k * I for some k >= 1
\* when VRR is off, and either such a time or now itself when VRR is on.
C6_result_on_grid_or_now ==
    (Queried /\ monotonic_time >= T) =>
        /\ ~vrr => Returned \in Grid
        /\ vrr => (Returned \in Grid \/ Returned = monotonic_time)

\* A query at a time not before T that is off the grid, under VRR
C6_witness ==
    /\ Queried /\ vrr
    /\ monotonic_time > T
    /\ monotonic_time \notin Grid
    /\ Returned = monotonic_time

\* C7, as stated: with VRR off and now >= T, the return is the smallest
\* T + k * I (k >= 1) that is not before now.
C7_smallest_not_before_now ==
    (Queried /\ ~vrr /\ monotonic_time >= T) =>
        /\ Returned \in Grid
        /\ Returned >= monotonic_time
        /\ \A g \in Grid : g >= monotonic_time => Returned <= g

\* C7, amended: with VRR off and now > T, the return is the smallest
\* T + k * I (k >= 1) strictly after now, so a now on the grid gets the next
\* grid time; with now = T the return is T + 2 * I.
C7_smallest_strictly_after_now ==
    (Queried /\ ~vrr /\ monotonic_time >= T) =>
        IF monotonic_time = T
        THEN Returned = T + 2 * I
        ELSE /\ Returned \in Grid
             /\ Returned > monotonic_time
             /\ \A g \in Grid : g > monotonic_time => Returned <= g

\* A query with VRR off at a time on the grid
C7_witness ==
    /\ Queried /\ ~vrr
    /\ monotonic_time \in Grid
    /\ Returned = monotonic_time + I

\* The fixed-rate target of a query at a time after T: the smallest grid time
\* strictly after now
Target == T + ((monotonic_time - T) \div I + 1) * I

\* C8, as stated: with VRR on, the return is now exactly when the fixed-rate
\* target is more than one interval after now, and the target otherwise.
C8_now_iff_target_far_from_now ==
    (Queried /\ vrr /\ monotonic_time > T) =>
        /\ Returned = monotonic_time <=> Target - monotonic_time > I
        /\ Returned # monotonic_time => Returned = Target

\* C8, amended: with VRR on, the return is now exactly when the fixed-rate
\* target is more than one interval after the last presentation time T, that
\* is when now is at least one interval after T; for an earlier now, before T
\* as well, the return is T + I.
C8_now_iff_target_far_from_last ==
    (Queried /\ vrr) =>
        IF monotonic_time - T >= I
        THEN Returned = monotonic_time /\ Target - T > I
        ELSE Returned = T + I

\* A query under VRR exactly one interval after T
C8_witness ==
    /\ Queried /\ vrr
    /\ monotonic_time = T + I
    /\ Returned = monotonic_time

\* C9, as stated: when now precedes T by two intervals or more, the return
\* is T + 2 * I whatever the mode.
C9_early_returns_two_intervals ==
    (Queried /\ T - monotonic_time >= 2 * I) => Returned = T + 2 * I

\* C9, amended: when now precedes T by more than one interval, the error is
\* logged, now is re-aligned to T + I, and the return is T + 2 * I with VRR
\* off and T + I with VRR on; the error is logged in no other case.
C9_early_returns_by_mode ==
    Queried =>
        /\ Unwrap(fc_ret).error <=> T - monotonic_time > I
        /\ T - monotonic_time > I =>
               Returned = IF vrr THEN T + I ELSE T + 2 * I

\* An early query, two intervals or more before T, with VRR off
C9_witness ==
    /\ Queried /\ ~vrr
    /\ T - monotonic_time >= 2 * I
    /\ Unwrap(fc_ret).error
    /\ Returned = T + 2 * I

-----------------------------------------------------------------------------
\* Claims about the adjustable clock.

C11_now_constant_within_frame ==
    /\ Cardinality(frame_now) <= 1
    /\ frame_now # {} => frame_now = {current_time}

\* now() has returned in a frame that began with the monotonic clock ahead of
\* the raw time seen before, at a rate other than 1 and with the rate changed
\* since.
C11_witness ==
    /\ frame_now # {}
    /\ rate_changed
    /\ rate # RateUnit
    /\ current_time # last_seen_time
    /\ complete_instantly

\* ---------------------------------------------------------------------------
\* Animation

Anim == Unwrap(animation)

AnimRet == Unwrap(anim_ret)

AnimReturnedFrom(op) == IsSome(anim_ret) /\ AnimRet.op = op

\* start_time + duration of the animation
AnimEnd == Duration_add(Anim.start_time, Anim.duration)

C13_to_from_the_end_on ==
    (/\ AnimReturnedFrom("value_at")
     /\ ~AnimEnd.panic
     /\ AnimRet.at >= AnimEnd.lo)
        => AnimRet.value = Exactly(Anim.to)

\* C13: value_at(t) is `to` for every t >= start_time + duration that is
\* after start_time, whatever the kind; at t = start_time, which a duration
\* of zero makes the end as well, value_at returns `from`.
C13_to_from_the_end_on_after_start ==
    /\ (/\ AnimReturnedFrom("value_at")
        /\ ~AnimEnd.panic
        /\ AnimRet.at >= AnimEnd.lo
        /\ AnimRet.at > Anim.start_time)
           => AnimRet.value = Exactly(Anim.to)
    /\ (/\ AnimReturnedFrom("value_at")
        /\ AnimRet.at <= Anim.start_time)
           => AnimRet.value = Exactly(Anim.from)

\* value_at has been asked beyond the end of a spring that had time to run
C13_witness ==
    /\ AnimReturnedFrom("value_at")
    /\ Anim.kind.tag = "Spring"
    /\ Anim.from # Anim.to
    /\ Anim.duration > 0
    /\ ~AnimEnd.panic
    /\ AnimRet.at >= AnimEnd.lo
    /\ ~complete_instantly
    /\ AnimRet.value = Exactly(Anim.to)

ReplaceConfigStep == IsSome(anim_ret') /\ Unwrap(anim_ret').op = "replace_config"

\* C14 as stated: replace_config leaves from, to, start_time and the clock
\* as they are, and of the rest only kind, duration and clamped duration
\* may change.
C14_only_kind_and_durations_change ==
    [][ReplaceConfigStep =>
         /\ Unwrap(animation').from = Anim.from
         /\ Unwrap(animation').to = Anim.to
         /\ Unwrap(animation').start_time = Anim.start_time
         /\ Unwrap(animation').initial_velocity = Anim.initial_velocity
         /\ Unwrap(animation').is_off = Anim.is_off]_vars

\* C14: replace_config leaves from, to, start_time and initial_velocity as
\* they are (kind, duration, clamped duration and is_off may change, is_off
\* becoming the `off` of the config), and replacing a config by the same
\* config leaves the whole animation, and so value_at(t) for every t, as it
\* was.
C14_replace_config_keeps_endpoints ==
    [][ReplaceConfigStep =>
         /\ Unwrap(animation').from = Anim.from
         /\ Unwrap(animation').to = Anim.to
         /\ Unwrap(animation').start_time = Anim.start_time
         /\ Unwrap(animation').initial_velocity = Anim.initial_velocity
         /\ Unwrap(animation').is_off = Unwrap(anim_config').off
         /\ anim_config' = anim_config =>
               /\ animation' = animation
               /\ \A t \in 0..MaxAt, i \in BOOLEAN :
                     Animation_value_at(Unwrap(animation'), i, t)
                         = Animation_value_at(Anim, i, t)]_vars

\* replace_config has run later than the animation started and has made a
\* spring of it
C14_witness ==
    /\ AnimReturnedFrom("replace_config")
    /\ Anim.kind.tag = "Spring"
    /\ Anim.duration > 0
    /\ Anim.from # Anim.to
    /\ ~Anim.is_off
    /\ Anim.start_time < current_time
    /\ frame_now # {}

\* ---------------------------------------------------------------------------
\* The configure flow of a window

\* The step that has just been taken is operation `op` on the window
MappedStep(op) == mapped_op'.op = op

ResizeTag(x) == IF IsSome(x) THEN Unwrap(x).tag ELSE "none"

\* C15: apart from the start of a drag and cancel_interactive_resize, the
\* interactive-resize state moves only along Ongoing -> WaitingForLastConfigure
\* (set_interactive_resize(None)) -> WaitingForLastCommit(serial) (a
\* send_pending_configure that sends, serial being what it sent) -> none (a
\* commit no older than serial), with WaitingForLastConfigure -> none at a
\* send_pending_configure that sends nothing; each of these events does move
\* it, and a commit older than serial leaves WaitingForLastCommit in place.
C15_resize_moves_along_chain ==
    [][LET before == mapped.interactive_resize
           after == mapped'.interactive_resize
           drag_end == MappedStep("set_interactive_resize") /\ ~mapped_op'.flag
           send == MappedStep("send_pending_configure")
           commit == MappedStep("commit")
           in_time == commit /\ ResizeTag(before) = "WaitingForLastCommit"
                      /\ mapped_op'.serial >= Unwrap(before).serial
       IN  /\ before # after =>
                \/ MappedStep("set_interactive_resize") /\ mapped_op'.flag
                     /\ after = Ongoing
                \/ MappedStep("cancel_interactive_resize") /\ after = None
                \/ drag_end /\ before = Ongoing
                     /\ after = WaitingForLastConfigure
                \/ send /\ before = WaitingForLastConfigure /\ mapped_op'.sent
                     /\ after = WaitingForLastCommit(mapped_op'.serial)
                \/ send /\ before = WaitingForLastConfigure /\ ~mapped_op'.sent
                     /\ after = None
                \/ in_time /\ after = None
           /\ (drag_end /\ before = Ongoing) => after = WaitingForLastConfigure
           /\ (send /\ before = WaitingForLastConfigure) => after # before
           /\ in_time => after = None
           /\ (commit /\ ResizeTag(before) = "WaitingForLastCommit" /\ ~in_time)
                 => after = before]_vars

\* A commit older than the serial waited for has left WaitingForLastCommit
C15_witness ==
    /\ mapped_op.op = "commit"
    /\ ResizeTag(mapped.interactive_resize) = "WaitingForLastCommit"
    /\ mapped_op.serial < Unwrap(mapped.interactive_resize).serial
    /\ mapped_op.serial >= 2

HasPendingChanges ==
    \/ mapped.needs_configure
    \/ /\ IsSome(role.server_pending)
       /\ Unwrap(role.server_pending) # Role_current_server_state(role)

\* The client has still to commit serial `serial` or a newer one: what it
\* committed is older, and a configure no older is under way or acked
Uncommitted(serial) ==
    /\ \/ \E i \in 1..Len(role.pending_configures) :
              role.pending_configures[i].serial >= serial
       \/ /\ IsSome(role.configure_serial)
          /\ Unwrap(role.configure_serial) >= serial
    /\ IsSome(role.current_serial) => Unwrap(role.current_serial) < serial

\* The client has committed the last configure and none is due
RoundTripDone ==
    /\ ~HasPendingChanges
    /\ role.pending_configures = <<>>
    /\ role.current_serial = role.configure_serial

\* C17: while request_size_once waits for its configure one is due, and the
\* next send_pending_configure sends it and waits for the commit of what it
\* sent; the serial waited for is one the client has still to reach, and
\* the commit of it or of a newer one gives UseWindowSize; so one
\* configure-commit round trip ends the wait: once the client has committed
\* the last configure and none is due, the state is UseWindowSize.  Only
\* request_size and request_size_once take the state out of UseWindowSize.
C17_size_once_reaches_use_window_size ==
    /\ [](mapped.request_size_once = WaitingForConfigure => HasPendingChanges)
    /\ [](\A serial \in 1..MaxSerial :
            mapped.request_size_once = WaitingForCommit(serial)
               => Uncommitted(serial))
    /\ [](RoundTripDone => mapped.request_size_once \in {None, UseWindowSize})
    /\ [][LET before == mapped.request_size_once
              after == mapped'.request_size_once
              request == \/ MappedStep("request_size")
                         \/ MappedStep("request_size_once")
          IN  /\ (before # after /\ ~request) =>
                   \/ /\ before = WaitingForConfigure
                      /\ MappedStep("send_pending_configure")
                   \/ /\ ResizeTag(before) = "WaitingForCommit"
                      /\ MappedStep("commit")
                      /\ after = UseWindowSize
              /\ (/\ before = WaitingForConfigure
                  /\ MappedStep("send_pending_configure")) =>
                   /\ mapped_op'.sent
                   /\ after = WaitingForCommit(mapped_op'.serial)
              /\ (/\ ResizeTag(before) = "WaitingForCommit"
                  /\ MappedStep("commit")
                  /\ mapped_op'.serial >= Unwrap(before).serial) =>
                   after = UseWindowSize
              /\ (before = UseWindowSize /\ ~request) => after = before]_vars

\* The commit of the configure of a request_size_once has given UseWindowSize
C17_witness ==
    /\ mapped_op.op = "commit"
    /\ mapped_op.serial = MaxSerial
    /\ mapped.request_size_once = UseWindowSize
    /\ RoundTripDone
    /\ Role_current_server_state(role).size = Some(<<2, 0>>)

\* Mapped::expected_size of the window as it is
ExpectedSize == Mapped_expected_size(mapped, role, geometry)

\* `size` with its zero components replaced by the current window size
OrWindowSize(size) ==
    <<IF size[1] = 0 THEN geometry[1] ELSE size[1],
      IF size[2] = 0 THEN geometry[2] ELSE size[2]>>

\* A non-fullscreen request_size is the last request and the client has not
\* committed its configure
RequestUnderWay == IsSome(size_request) /\ ~Unwrap(size_request).committed

\* The client has just committed the configure of the last request_size with
\* a window of the requested size
RequestHonoured ==
    /\ IsSome(size_request) /\ Unwrap(size_request).committed
    /\ mapped_op.op = "commit"
    /\ mapped_op.serial = Unwrap(size_request).serial
    /\ geometry = Unwrap(size_request).size

\* C18 as stated: from a non-fullscreen request_size(s) until the commit of
\* its configure expected_size() is s with its zero components replaced by
\* the current window size, and s after that commit with a window of size s.
C18_expected_size_is_requested ==
    /\ RequestUnderWay
          => ExpectedSize = Some(OrWindowSize(Unwrap(size_request).size))
    /\ RequestHonoured => ExpectedSize = Some(Unwrap(size_request).size)

\* A real fullscreen stands between the request and the window: the window
\* is fullscreen, or the last configure sent is a fullscreen one
FullscreenInTheWay ==
    \/ Mapped_is_fullscreen(mapped, role)
    \/ /\ Role_last_sent(role).state.fullscreen
       /\ ~mapped.is_pending_windowed_fullscreen

\* C18: from a non-fullscreen request_size(s) until the commit of its
\* configure, with no other request in between and a client that honours
\* the sizes it is sent, expected_size() is s with its zero components
\* replaced by the current window size, or None while a real fullscreen
\* stands in the way, and never another size; after that commit with a
\* window of size s it is s.
C18_expected_size_is_requested_or_none ==
    /\ RequestUnderWay =>
          /\ ExpectedSize \in
                {None, Some(OrWindowSize(Unwrap(size_request).size))}
          /\ ExpectedSize = None => FullscreenInTheWay
    /\ RequestHonoured => ExpectedSize = Some(Unwrap(size_request).size)

\* The configure of a request for another size has been sent and the client
\* has not committed it: the window has its old size
C18_witness ==
    /\ RequestUnderWay
    /\ Unwrap(size_request).serial = MaxSerial
    /\ mapped_op.op = "ack_configure"
    /\ geometry # OrWindowSize(Unwrap(size_request).size)
    /\ ExpectedSize = Some(OrWindowSize(Unwrap(size_request).size))

\* The step clears the animation flag, clears the transaction for the next
\* configure, or takes entries out of uncommited_windowed_fullscreen
ClearsAnimate ==
    mapped.animate_next_configure /\ ~mapped'.animate_next_configure
ClearsTransaction ==
    /\ IsSome(mapped.transaction_for_next_configure)
    /\ mapped'.transaction_for_next_configure = None
ShortensWindowedFullscreen ==
    Len(mapped'.uncommited_windowed_fullscreen)
        < Len(mapped.uncommited_windowed_fullscreen)

\* C19 as stated: the animation flag, the transaction for the next configure
\* and the entries of uncommited_windowed_fullscreen are cleared by the
\* send_pending_configure calls that send a configure, and by nothing else.
C19_cleared_only_by_sent_configure ==
    [][/\ (ClearsAnimate \/ ClearsTransaction \/ ShortensWindowedFullscreen)
            => (MappedStep("send_pending_configure") /\ mapped_op'.sent)
       /\ (MappedStep("send_pending_configure") /\ mapped_op'.sent)
            => /\ ~mapped'.animate_next_configure
               /\ mapped'.transaction_for_next_configure = None]_vars

\* C19: every send_pending_configure call leaves the animation flag and the
\* transaction for the next configure cleared, whether it sends a configure,
\* which then takes them along under its serial, or not, which loses them;
\* the flag is cleared by nothing else, the transaction also by
\* request_size_once.  uncommited_windowed_fullscreen gains the entry of a
\* configure when it is sent and loses it at the commit of its serial or of
\* a newer one.
C19_cleared_by_every_send ==
    [][LET send == MappedStep("send_pending_configure")
           before == mapped.uncommited_windowed_fullscreen
           after == mapped'.uncommited_windowed_fullscreen
       IN  /\ ClearsAnimate => send
           /\ ClearsTransaction => (send \/ MappedStep("request_size_once"))
           /\ send =>
                /\ ~mapped'.animate_next_configure
                /\ mapped'.transaction_for_next_configure = None
                /\ mapped'.animate_serials =
                     IF mapped_op'.sent /\ mapped.animate_next_configure
                     THEN Append(mapped.animate_serials, mapped_op'.serial)
                     ELSE mapped.animate_serials
                /\ mapped'.pending_transactions =
                     IF /\ mapped_op'.sent
                        /\ IsSome(mapped.transaction_for_next_configure)
                     THEN Append(mapped.pending_transactions,
                                 <<mapped_op'.serial,
                                   Unwrap(mapped.transaction_for_next_configure)>>)
                     ELSE mapped.pending_transactions
           /\ after # before =>
                \/ /\ send /\ mapped_op'.sent
                   /\ after = Append(before,
                         [serial |-> mapped_op'.serial,
                          value |-> mapped.is_pending_windowed_fullscreen])
                \/ /\ MappedStep("commit")
                   /\ after = SelectSeq(before,
                         LAMBDA e : e.serial > mapped_op'.serial)]_vars

\* A send_pending_configure that found the animation flag or a transaction
\* set has sent nothing
C19_witness ==
    /\ mapped_op.op = "send_pending_configure"
    /\ ~mapped_op.sent
    /\ mapped_op.flag
    /\ ~mapped.animate_next_configure
    /\ mapped.transaction_for_next_configure = None
    /\ mapped.animate_serials = <<>>
    /\ mapped.pending_transactions = <<>>

\* C20: at a commit of serial s should_animate_commit returns true iff
\* animate_serials holds a serial no newer than s; these serials are the
\* front of the list and are all removed, the newer ones stay in their
\* order; the list is in the order of the serials and holds no serial that
\* the client has committed, so no serial makes a second commit animate.
C20_animate_serials_consumed_in_order ==
    /\ [](\A i \in 1..Len(mapped.animate_serials) :
            /\ mapped.animate_serials[i] > Unwrap(role.current_serial)
            /\ i > 1 => mapped.animate_serials[i - 1]
                           < mapped.animate_serials[i])
    /\ [][MappedStep("commit") =>
            LET before == mapped.animate_serials
                after == mapped'.animate_serials
                s == mapped_op'.serial
            IN  \E k \in 0..Len(before) :
                   /\ \A i \in 1..k : before[i] <= s
                   /\ \A i \in (k + 1)..Len(before) : before[i] > s
                   /\ after = SubSeq(before, k + 1, Len(before))
                   /\ mapped_op'.flag = (k > 0)]_vars

\* A commit has animated and left a newer serial in the list
C20_witness ==
    /\ mapped_op.op = "commit"
    /\ mapped_op.flag
    /\ mapped.animate_serials = <<MaxSerial>>
    /\ mapped_op.serial < MaxSerial

\* ---------------------------------------------------------------------------
\* Rendering an output

\* The step just taken is a render of the output
RenderStep == render_op'.op = "render"

C22_submit_waits_for_estimated_vblank ==
    [][RenderStep =>
          /\ redraw_state = Queued
          /\ redraw_state' = IF render_op'.result = "Submitted"
                             THEN WaitingForEstimatedVBlank ELSE Idle]_vars

\* C22: on the winit and headless backends every render takes the output
\* from Queued to Idle, whether it submits a frame or finds no damage; the
\* output is never in a state that waits for a vblank or a timer.
C22_render_leaves_idle ==
    /\ [](redraw_state \in {Idle, Queued})
    /\ [][RenderStep => (redraw_state = Queued /\ redraw_state' = Idle)]_vars

\* A render has submitted a frame and left the output idle
C22_witness ==
    /\ render_op = RenderOp("render", "Submitted")
    /\ redraw_state = Idle

\* C23: every render of the output, whether it submits a frame or finds no
\* damage, adds one to the frame-callback sequence, wrapping at the maximum;
\* nothing else changes the sequence.
C23_sequence_counts_renders ==
    [][frame_callback_sequence' =
          IF RenderStep
          THEN IF frame_callback_sequence = SequenceWrap - 1 THEN 0
               ELSE frame_callback_sequence + 1
          ELSE frame_callback_sequence]_vars

\* A render that found no damage has wrapped the sequence
C23_witness ==
    /\ render_op = RenderOp("render", "NoDamage")
    /\ frame_callback_sequence = 0

-----------------------------------------------------------------------------
\* Claims about the springs.

SpringRunning == spring_call.pc \in {"newton", "clamped"}

SpringOver == spring_call.pc \in {"returned", "panicked"}

\* The two springs of the tests of spring.rs
TestSprings == {"equal", "overdamped"}

-----------------------------------------------------------------------------
\* Claims about the watcher.

WatchStep(op) == watch_log'.op = op

\* C25, as stated: the thread sends exactly one notification for each change
\* of the resolved file or of its modification time, and none while nothing
\* changes: a poll reports as many changes as there were since the last read.
C25_one_notification_per_change ==
    [][WatchStep("poll") => watch_log'.notified = watch_log'.seen]_vars

\* C25, as the code has it: a poll reports at most one change, and it does so
\* exactly when the path resolves and its (modified, canon) differ from the
\* ones last reported; it reports nothing when nothing changed since the last
\* read, it reports once however many changes there were, and not at all when
\* the path stopped resolving or is back at what was last reported.  One
\* notification is put on the channel for a reported change while the receiver
\* is there, and the thread then goes on polling from the reported state.
C25_one_notification_per_poll_that_differs ==
    [][/\ WatchStep("poll") =>
            /\ watch_log'.notified \in {0, 1}
            /\ watch_log'.seen = 0 => watch_log'.notified = 0
            /\ watch_log'.notified = 1 <=>
                  /\ IsSome(fs_props)
                  /\ fs_props # watcher.last_props
            /\ watch_log'.notified = 1 =>
                  /\ watcher'.pc = "send"
                  /\ watcher'.new_props = fs_props
            /\ watch_log'.notified = 0 => watcher' = watcher
       /\ WatchStep("send") =>
            IF changed_channel.receiver
            THEN /\ changed_channel'.queued = changed_channel.queued + 1
                 /\ watcher'.pc = "sleep"
                 /\ watcher'.last_props = watcher.new_props
            ELSE /\ changed_channel' = changed_channel
                 /\ watcher'.pc = "exited"
      ]_vars

\* Two changes happened between two reads, and the poll reported one
C25_witness ==
    /\ watch_log.op = "poll"
    /\ watch_log.seen = 2
    /\ watch_log.notified = 1

-----------------------------------------------------------------------------
\* Claims about the serials of a window where the counter comes round.

\* The place of a serial in the order in which SpecWrap hands serials out:
\* SerialMax - 1 for the initial configure, then SerialMax, then 1
SendOrder(serial) ==
    IF serial >= SerialMax - 1 THEN serial - SerialMax ELSE serial

\* The places of the entries of a list that are no newer than `serial`
NoNewer(q, serial) ==
    {i \in 1..Len(q) : SendOrder(q[i][1]) <= SendOrder(serial)}

Newest(places) == CHOOSE i \in places : \A j \in places : j <= i

\* C26: pending_transactions is ordered by configure serial, oldest first,
\* with at most one transaction per sent configure; at a commit
\* take_pending_transaction(s) removes exactly the entries whose serial is
\* no newer than s, returns the transaction of the newest entry removed (None
\* if none was removed), and leaves every entry with a newer serial in place.
C26_pending_transactions_in_order ==
    /\ [](LET q == mapped.pending_transactions
          IN  \A i \in 1..Len(q) : \A j \in 1..Len(q) :
                 i < j => SendOrder(q[i][1]) < SendOrder(q[j][1]))
    /\ [][MappedStep("send_pending_configure") =>
            LET q == mapped.pending_transactions
                after == mapped'.pending_transactions
            IN  \/ after = q
                \/ /\ mapped_op'.sent
                   /\ IsSome(mapped.transaction_for_next_configure)
                   /\ after = Append(q,
                         <<mapped_op'.serial,
                           Unwrap(mapped.transaction_for_next_configure)>>)
         ]_vars
    /\ [][MappedStep("commit") =>
            LET q == mapped.pending_transactions
                s == mapped_op'.serial
                removed == NoNewer(q, s)
            IN  /\ mapped'.pending_transactions =
                      SelectSeq(q, LAMBDA p : SendOrder(p[1]) > SendOrder(s))
                /\ mapped_op'.transaction =
                      IF removed = {} THEN None
                      ELSE Some(q[Newest(removed)][2])
         ]_vars

\* A commit of the second configure has removed two transactions and taken
\* the one of the second configure
C26_witness ==
    /\ mapped_op.op = "commit"
    /\ mapped_op.serial = 1
    /\ mapped_op.taken = 2
    /\ mapped_op.transaction = Some(1)
    /\ mapped.pending_transactions = <<>>

\* The commit of serial `c` is no older, in the order of sending, than the
\* configure of serial `s`
CommitReaches(c, s) == SendOrder(c) >= SendOrder(s)

\* C27: the serial comparisons made on commit are wrap-safe.  A commit whose
\* serial is no older than a stored configure serial in the order of sending,
\* also when it is the smaller number because the counter came round, ends
\* WaitingForLastCommit, moves WaitingForCommit to UseWindowSize, applies the
\* stored windowed-fullscreen value and consumes the stored animate-serials
\* and pending transactions; a commit with an older serial does none of these.
C27_commit_comparisons_wrap_safe ==
    [][MappedStep("commit") =>
         LET c == mapped_op'.serial
             resize == mapped.interactive_resize
             once == mapped.request_size_once
             fullscreen == mapped.uncommited_windowed_fullscreen
             applied == {i \in 1..Len(fullscreen) :
                            CommitReaches(c, fullscreen[i].serial)}
         IN  /\ mapped'.interactive_resize =
                   IF /\ IsSome(resize)
                      /\ Unwrap(resize).tag = "WaitingForLastCommit"
                      /\ CommitReaches(c, Unwrap(resize).serial)
                   THEN None ELSE resize
             /\ mapped'.request_size_once =
                   IF /\ IsSome(once)
                      /\ Unwrap(once).tag = "WaitingForCommit"
                      /\ CommitReaches(c, Unwrap(once).serial)
                   THEN UseWindowSize ELSE once
             /\ mapped'.uncommited_windowed_fullscreen =
                   SelectSeq(fullscreen,
                             LAMBDA e : ~CommitReaches(c, e.serial))
             /\ mapped'.is_windowed_fullscreen =
                   IF applied = {} THEN mapped.is_windowed_fullscreen
                   ELSE fullscreen[Newest(applied)].value
             /\ mapped'.animate_serials =
                   SelectSeq(mapped.animate_serials,
                             LAMBDA s : ~CommitReaches(c, s))
             /\ mapped_op'.flag =
                   \E i \in 1..Len(mapped.animate_serials) :
                       CommitReaches(c, mapped.animate_serials[i])
             /\ mapped'.pending_transactions =
                   SelectSeq(mapped.pending_transactions,
                             LAMBDA p : ~CommitReaches(c, p[1]))
    ]_vars

\* The commit of serial 1, sent after the counter came round, has consumed
\* what was stored with SerialMax and with 1
C27_witness ==
    /\ mapped_op.op = "commit"
    /\ mapped_op.serial = 1
    /\ mapped_op.taken = 2
    /\ mapped_op.flag
    /\ mapped.animate_serials = <<>>
    /\ mapped.request_size_once = UseWindowSize

-----------------------------------------------------------------------------
\* Claims about configure_intent.

\* The state that the next configure would carry and the one sent last
IntentPending == Role_pending_state(role)

IntentLastSent == Role_current_server_state(role)

OnlySizeDiffers ==
    /\ IntentPending.size # IntentLastSent.size
    /\ IntentPending.fullscreen = IntentLastSent.fullscreen
    /\ IntentPending.resizing = IntentLastSent.resizing

\* C28: configure_intent returns ShouldSend whenever needs_configure is set;
\* otherwise NotNeeded when the server-pending state equals the last sent
\* state, CanSend when only the size differs and the client has committed the
\* last sent size, Throttled when only the size differs and the client has
\* not yet committed it, and ShouldSend when anything but the size differs.
C28_configure_intent_cases ==
    mapped_op.op = "configure_intent" =>
        mapped_op.intent =
            IF mapped.needs_configure THEN "ShouldSend"
            ELSE IF IntentPending = IntentLastSent THEN "NotNeeded"
            ELSE IF ~OnlySizeDiffers THEN "ShouldSend"
            ELSE IF role.current.size = IntentLastSent.size THEN "CanSend"
            ELSE "Throttled"

\* Only the size differs from a configure that the client has not committed:
\* the intent is Throttled
C28_witness ==
    /\ mapped_op.op = "configure_intent"
    /\ mapped_op.intent = "Throttled"
    /\ ~mapped.needs_configure
    /\ OnlySizeDiffers
    /\ role.current.size # IntentLastSent.size

-----------------------------------------------------------------------------
\* Claims about set_vrr and presented.

\* The frame clock on which the last set_vrr or presented was called
FcBefore == Unwrap(fc_op.before)

\* C29: set_vrr with a value different from the current one clears the last
\* presentation time, so next_presentation_time returns now until
\* presented(t) is called with a non-zero t; set_vrr with the current value
\* and presented(0) both leave the frame clock's state unchanged.
C29_set_vrr_clears_last_presentation ==
    /\ fc_op.op = "set_vrr" =>
          IF fc_op.vrr # FcBefore.vrr
          THEN /\ vrr = fc_op.vrr
               /\ last_presentation_time = None
               /\ refresh_interval_ns = FcBefore.refresh_interval_ns
          ELSE FrameClockSelf = FcBefore
    /\ fc_op.op = "presented" =>
          IF fc_op.presentation_time = 0
          THEN FrameClockSelf = FcBefore
          ELSE /\ last_presentation_time = Some(fc_op.presentation_time)
               /\ vrr = FcBefore.vrr
               /\ refresh_interval_ns = FcBefore.refresh_interval_ns
    /\ (last_presentation_time = None /\ IsSome(fc_ret)) =>
          /\ Unwrap(fc_ret).ret = monotonic_time
          /\ ~Unwrap(fc_ret).error

\* set_vrr has toggled VRR on a clock with a refresh interval and a last
\* presentation time, and next_presentation_time has returned now
C29_witness ==
    /\ fc_op.op = "set_vrr"
    /\ fc_op.vrr # FcBefore.vrr
    /\ IsSome(FcBefore.last_presentation_time)
    /\ IsSome(refresh_interval_ns)
    /\ monotonic_time > Unwrap(FcBefore.last_presentation_time)
    /\ IsSome(fc_ret)
    /\ Unwrap(fc_ret).ret = monotonic_time

-----------------------------------------------------------------------------
\* Claims about the deadline timer.

\* Every clone of the transaction has been dropped
Dropped(t) == txs[t].born /\ txs[t].strong = 0

\* C30: however many clones call register_deadline_timer and however often,
\* exactly one deadline timer is installed per transaction, and dropping the
\* transaction (its last clone) cancels that timer: the ping that removes it
\* is sent at the drop, and the timer callback completes and signals nothing
\* after the drop.
C30_one_timer_cancelled_by_drop ==
    /\ [](\A t \in TxIds :
            /\ evloop[t].installed =
                  IF txs[t].deadline.registered THEN 1 ELSE 0
            /\ evloop[t].timer # "none" <=> txs[t].deadline.registered
            /\ (Dropped(t) /\ evloop[t].timer = "armed") => evloop[t].ping)
    /\ [][\A t \in TxIds :
            /\ (txs[t].strong = 1 /\ txs'[t].strong = 0
                /\ txs[t].deadline.registered) => evloop'[t].ping
            /\ (Dropped(t) /\ evloop[t].timer = "armed"
                /\ evloop'[t].timer = "dropped") =>
                   /\ txs' = txs
                   /\ chan' = chan
                   /\ sent' = sent
                   /\ ~deadline_fired'[t]
            /\ Dropped(t) => txs'[t] = txs[t]]_vars

\* The timer of a transaction whose clones are all dropped has been removed
\* by the ping of the drop, before its deadline
C30_witness ==
    \E t \in TxIds :
        /\ Dropped(t)
        /\ evloop[t].installed = 1
        /\ evloop[t].timer = "removed"
        /\ ~evloop[t].ping
        /\ ~deadline_fired[t]

-----------------------------------------------------------------------------
\* Claims about the clamped search.

\* clamped_duration() has returned from its search (unequal endpoints and a
\* positive damping)
ClampedSearched ==
    /\ spring_call.fn = "clamped_duration"
    /\ spring_call.pc = "returned"
    /\ ~SpringOf(spring_call.name).beta_zero
    /\ ~SpringOf(spring_call.name).equal

\* P(t): the oscillation at t ms is within epsilon of `to` on the approach side
Reached(s, t) == ~Short(s, t)

\* t is the smallest of 1..n at which P holds
SmallestReached(s, n, t) ==
    /\ t \in 1..n
    /\ Reached(s, t)
    /\ \A u \in 1..(t - 1) : ~Reached(s, u)

\* What C31 says of a search that looks at the milliseconds 1..n
ClampedSearchOver(n) ==
    ClampedSearched =>
        LET s == SpringOf(spring_call.name) IN
        /\ spring_call.result \in {"Some(i ms)", "None"}
        /\ spring_call.result = "Some(i ms)" =>
              SmallestReached(s, n, spring_call.i)
        /\ spring_call.result = "None" => \A t \in 1..n : ~Reached(s, t)

-----------------------------------------------------------------------------
\* Claims about the clamped duration of an animation.

\* The spring of the animation is critically damped
AnimCritical ==
    LET params == Anim.kind.spring.params
    IN  params.damping \div (2 * params.mass)
            = Sqrt(params.stiffness \div params.mass)

\* is_clamped_done() has returned false at a time at which is_done() is true
DoneBeforeClampedDone ==
    /\ AnimReturnedFrom("is_clamped_done")
    /\ AnimRet.done = [panic |-> FALSE, done |-> FALSE]
    /\ Animation_is_done(Anim, complete_instantly, AnimRet.at)
          = [panic |-> FALSE, done |-> TRUE]

-----------------------------------------------------------------------------
\* Claims about the screen transition.

\* The unadjusted time since the start of the fade (creation time + delay),
\* at the operation that has just returned
SinceFadeStart ==
    st_ret.now
      - (Unwrap(screen_transition).created + Unwrap(screen_transition).delay)

\* C33: a screen transition ignores slow-motion.  What is_done() and render()
\* report is a function of the unadjusted times alone (the one new() read, the
\* delay, the one the call read), whatever the rate and the instant-complete
\* setting of the clock are and were, so two runs over the same unadjusted
\* times report the same; is_done() is true exactly from creation time + delay
\* + DURATION on; and a change of the rate or of the setting leaves the
\* transition and the unadjusted time alone.
C33_transition_ignores_slow_motion ==
    /\ [](/\ st_ret.op = "is_done" =>
                st_ret.done <=> SinceFadeStart >= DURATION
          /\ st_ret.op = "render" =>
                st_ret.alpha =
                   IF SinceFadeStart >= DURATION THEN 0
                   ELSE IF SinceFadeStart >= 0
                   THEN 1000 - (SinceFadeStart * 1000) \div DURATION
                   ELSE 1000)
    /\ [][(rate' # rate \/ complete_instantly' # complete_instantly) =>
             /\ screen_transition' = screen_transition
             /\ time' = time]_vars

\* On a stopped clock that completes instantly is_done() has returned false
\* one unit before the end of the fade
C33_witness ==
    /\ st_ret.op = "is_done"
    /\ ~st_ret.done
    /\ SinceFadeStart = DURATION - 1
    /\ complete_instantly
    /\ rate = 0

-----------------------------------------------------------------------------
\* Claims about windowed fullscreen.

\* Every configure sent to the window has been acked and committed, and
\* send_pending_configure would send nothing
WindowSettled ==
    /\ role.pending_configures = <<>>
    /\ role.current_serial = Some(next_serial - 1)
    /\ ~Mapped_send_pending_configure(mapped, role, geometry,
                                      next_serial).sent

\* C34: for every interleaving of request_windowed_fullscreen, request_size
\* (fullscreen or not), send_pending_configure and client commits, once every
\* configure sent to the window has been committed and send_pending_configure
\* finds nothing more to send, is_windowed_fullscreen equals
\* is_pending_windowed_fullscreen.
C34_windowed_fullscreen_settles ==
    WindowSettled =>
        mapped.is_windowed_fullscreen = mapped.is_pending_windowed_fullscreen

\* The window has committed the windowed fullscreen that a request_size for a
\* real fullscreen took back before the commit: nothing is left to send or to
\* commit, and is_windowed_fullscreen stays true
C34_witness ==
    /\ WindowSettled
    /\ mapped.is_windowed_fullscreen
    /\ ~mapped.is_pending_windowed_fullscreen
    /\ mapped.uncommited_windowed_fullscreen = <<>>
    /\ ~mapped.needs_configure
    /\ role.current.fullscreen

-----------------------------------------------------------------------------
\* Claims about the addition of a start time and a duration.

\* The functions of an Animation that add its duration, or its clamped
\* duration, to its start time
AnimQueries == {"is_done", "is_clamped_done", "end_time", "value_at"}

\* The animation is a spring without damping: its duration and its clamped
\* duration are Duration::MAX
AnimUndamped ==
    /\ ~Anim.is_off
    /\ Anim.kind.tag = "Spring"
    /\ Anim.kind.spring.params.damping = 0
    /\ Anim.duration = Duration_MAX
    /\ Anim.clamped_duration = Duration_MAX

\* C35: is_done(), is_clamped_done(), end_time() and value_at() are total:
\* they return without arithmetic overflow for every animation at every clock
\* time, including an animation built from a spring with zero damping, whose
\* duration is the maximum representable duration.
C35_animation_queries_return ==
    (IsSome(anim_ret) /\ AnimRet.op \in AnimQueries) =>
        /\ ~AnimRet.done.panic
        /\ ~AnimRet.value.panic

\* is_done() was called on an undamped spring that started later than at
\* time zero, on a clock that does not complete instantly, and the addition
\* of its start time and its duration overflowed
C35_witness ==
    /\ AnimReturnedFrom("is_done")
    /\ AnimUndamped
    /\ Anim.start_time > 0
    /\ ~complete_instantly
    /\ AnimRet.done.panic

-----------------------------------------------------------------------------
\* Claims about focus and urgency.

\* C36: in every reachable state of a mapped window it is not both focused
\* and urgent: any focus change clears urgency, and set_urgent(true) on a
\* focused window is ignored.
C36_never_focused_and_urgent ==
    /\ [](\A w \in Windows : ~(focus[w].is_focused /\ focus[w].is_urgent))
    /\ [][\A w \in Windows :
             focus'[w].is_focused # focus[w].is_focused =>
                 ~focus'[w].is_urgent]_vars
    /\ [][(/\ focus_op'.op = "set_urgent"
           /\ focus_op'.value
           /\ focus[focus_op'.window].is_focused) => focus' = focus]_vars

\* An urgent window has just been focused, which cleared its urgency, while
\* the other window is focused and not urgent
C36_witness ==
    /\ focus_op.op = "set_is_focused"
    /\ focus_op.window = 1
    /\ focus_op.value
    /\ focus_op.before.is_urgent
    /\ ~focus_op.before.is_focused
    /\ focus[1].is_focused
    /\ ~focus[1].is_urgent
    /\ focus[2].is_focused

-----------------------------------------------------------------------------
\* Claims about the screensaver inhibitors.

\* No method call is under way and the monitor task is between two signals
\* or has ended
SaverQuiescent ==
    /\ saver_call.pc = "idle"
    /\ monitor_task \in {"monitoring", "ended"}

\* C37: the screensaver-inhibit flag is_inhibited is true exactly when at
\* least one inhibitor cookie is registered, in every quiescent state
\* reachable by any interleaving of inhibit, un_inhibit, the
\* disappeared-client cleanup and the monitor-failure cleanup running on
\* another thread.
C37_inhibited_iff_inhibitors ==
    SaverQuiescent => (is_inhibited <=> DOMAIN inhibitors # {})

\* The monitor task has ended after its failure, no call is under way, no
\* inhibitor is registered and is_inhibited is true: an inhibit() stored
\* true between the two steps of the cleanup
C37_witness ==
    /\ SaverQuiescent
    /\ monitor_task = "ended"
    /\ is_broken
    /\ saver_ret.op = "inhibit"
    /\ saver_ret.result = "Ok"
    /\ DOMAIN inhibitors = {}
    /\ is_inhibited

-----------------------------------------------------------------------------
\* Claims about restarted.

\* The step is a call of restarted: `old` is the animation it was called on,
\* `new` the one it returned, `given` its arguments
RestartedStep ==
    /\ IsSome(anim_ret')
    /\ Unwrap(anim_ret').op = "restarted"

\* The animation that was returned runs from the given `from` to the given
\* `to`, starts at the clock's current time and has the given velocity, by
\* the rate of the clock
RestartedAsGiven(new, given) ==
    /\ new.from = given.from
    /\ new.to = given.to
    /\ new.start_time = current_time'
    /\ new.initial_velocity = Velocity_by_rate(given.initial_velocity, rate)

\* The kind and its parameters are the previous ones
RestartedSameKind(old, new) ==
    /\ new.is_off = old.is_off
    /\ new.kind.tag = old.kind.tag
    /\ old.kind.tag = "Easing" =>
          new.kind.curve = old.kind.curve /\ new.duration = old.duration
    /\ old.kind.tag = "Spring" =>
          new.kind.spring.params = old.kind.spring.params
    /\ old.kind.tag = "Deceleration" =>
          new.kind.deceleration_rate = old.kind.deceleration_rate

-----------------------------------------------------------------------------
\* Claims about the config error notification.

NotifTag == notification.state.tag

\* What advance_animations may move the notification along
NotifAlong ==
    {<<"Showing", "Shown">>, <<"Shown", "Hiding">>, <<"Hiding", "Hidden">>}

\* A step leaves the notification as it is, or is a show that starts
\* Showing, or a hide of a notification that is not hidden that starts
\* Hiding, or an advance_animations that moves it one state along
NotifMoves ==
    \/ notification' = notification
    \/ /\ notif_op'.op \in {"show", "show_created"}
       /\ NotifTag' = "Showing"
    \/ /\ notif_op'.op = "hide"
       /\ NotifTag # "Hidden"
       /\ NotifTag' = "Hiding"
    \/ /\ notif_op'.op = "advance_animations"
       /\ <<NotifTag, NotifTag'>> \in NotifAlong

\* What the call that has just returned has left: a show an animation from
\* 0 to 1 that starts now, whatever the state was; a hide an animation from 1
\* to 0 that starts now, or the hidden notification it found;
\* are_animations_ongoing whether the notification is not hidden
NotifReturned ==
    /\ notif_op.op \in {"show", "show_created"} =>
          /\ NotifTag = "Showing"
          /\ notification.state.anim.from = 0
          /\ notification.state.anim.to = 1000
          /\ notification.state.anim.start_time = current_time
    /\ notif_op.op = "hide" =>
          IF notif_op.before = "Hidden" THEN NotifTag = "Hidden"
          ELSE /\ NotifTag = "Hiding"
               /\ notification.state.anim.from = 1000
               /\ notification.state.anim.to = 0
               /\ notification.state.anim.start_time = current_time
    /\ notif_op.op = "are_animations_ongoing" =>
          notif_op.ongoing = (NotifTag # "Hidden")

====
